---- MODULE Spec2Model ----
(***************************************************************************)
(* Model of the property-valuation wizard (App component): the answer set  *)
(* formData, the step index currentStep, the memoised step sequence steps  *)
(* and the handlers that change them.                                      *)
(*                                                                         *)
(* Text values are sequences of one-character strings, so that trim,       *)
(* parseInt and Number can be computed the way JavaScript computes them.   *)
(* The alphabet used for typed text holds no "x", "I" or hex letters other *)
(* than "e": hexadecimal literals and "Infinity" are outside the model.    *)
(***************************************************************************)
EXTENDS Integers, Sequences, FiniteSets, TLC

VARIABLES formData, currentStep, showWelcome, steps, currentYear, pending, last

vars == <<formData, currentStep, showWelcome, steps, currentYear, pending, last>>

\* --------------------------------------------------------------- bounds

\* Longest text typed into the construction-year field.
MaxYearLen == 4
\* The session runs in one of the calendar years 2025 .. 2025 + YearSpan.
YearSpan == 1
\* Most requests of the wizard in flight at one time.
MaxPending == 1

CurrentYears == 2025 .. (2025 + YearSpan)

\* ------------------------------------------------- JavaScript text helpers

Digits == {"0", "1", "2", "3", "4", "5", "6", "7", "8", "9"}

DigitVal(c) ==
  CASE c = "0" -> 0 [] c = "1" -> 1 [] c = "2" -> 2 [] c = "3" -> 3
    [] c = "4" -> 4 [] c = "5" -> 5 [] c = "6" -> 6 [] c = "7" -> 7
    [] c = "8" -> 8 [] c = "9" -> 9

IsSpace(c) == c = " "

RECURSIVE TrimStart(_)
TrimStart(s) ==
  IF s # <<>> /\ IsSpace(Head(s)) THEN TrimStart(Tail(s)) ELSE s

RECURSIVE TrimEnd(_)
TrimEnd(s) ==
  IF s # <<>> /\ IsSpace(s[Len(s)]) THEN TrimEnd(SubSeq(s, 1, Len(s) - 1)) ELSE s

\* String.prototype.trim
Trim(s) == TrimEnd(TrimStart(s))

\* The longest prefix of s made of decimal digits.
RECURSIVE DigitPrefix(_)
DigitPrefix(s) ==
  IF s # <<>> /\ Head(s) \in Digits
  THEN <<Head(s)>> \o DigitPrefix(Tail(s))
  ELSE <<>>

\* The value of a string of decimal digits.
RECURSIVE DigitsValue(_)
DigitsValue(d) ==
  IF d = <<>> THEN 0
  ELSE 10 * DigitsValue(SubSeq(d, 1, Len(d) - 1)) + DigitVal(d[Len(d)])

\* An integer result of parseInt: NaN, or the integer v.
NaNInt == [nan |-> TRUE, v |-> 0]
IntOf(n) == [nan |-> FALSE, v |-> n]

\* parseInt(s), radix 10: leading white space is skipped, one sign is read,
\* then the longest run of digits; what follows the digits is ignored and no
\* digit at all gives NaN.
parseInt(s) ==
  LET t == TrimStart(s)
      neg == t # <<>> /\ Head(t) = "-"
      u == IF t # <<>> /\ Head(t) \in {"+", "-"} THEN Tail(t) ELSE t
      z == DigitPrefix(u)
  IN IF z = <<>> THEN NaNInt
     ELSE IntOf(IF neg THEN 0 - DigitsValue(z) ELSE DigitsValue(z))

\* A decimal result of Number: NaN, or the value m * 10^e.
NaNDec == [nan |-> TRUE, m |-> 0, e |-> 0]
Dec(m, e) == [nan |-> FALSE, m |-> m, e |-> e]

DecNeg(a) == IF a.nan THEN a ELSE [a EXCEPT !.m = 0 - a.m]

\* s without its first n characters.
Drop(s, n) == SubSeq(s, n + 1, Len(s))

\* The exponent part after "e" and its sign: digits only, and at least one.
NumExpDigits(ip, fp, sg, d) ==
  IF d = <<>> \/ DigitPrefix(d) # d THEN NaNDec
  ELSE Dec(DigitsValue(ip \o fp), sg * DigitsValue(d) - Len(fp))

NumExp(ip, fp, r) ==
  IF r # <<>> /\ Head(r) = "-" THEN NumExpDigits(ip, fp, 0 - 1, Tail(r))
  ELSE IF r # <<>> /\ Head(r) = "+" THEN NumExpDigits(ip, fp, 1, Tail(r))
  ELSE NumExpDigits(ip, fp, 1, r)

\* After the integer digits ip and the fraction digits fp: the end, or an
\* exponent; a literal needs a digit in ip or fp.
NumAfterFrac(ip, fp, r) ==
  IF ip = <<>> /\ fp = <<>> THEN NaNDec
  ELSE IF r = <<>> THEN Dec(DigitsValue(ip \o fp), 0 - Len(fp))
  ELSE IF Head(r) \in {"e", "E"} THEN NumExp(ip, fp, Tail(r))
  ELSE NaNDec

NumAfterInt(ip, r) ==
  IF r # <<>> /\ Head(r) = "."
  THEN NumAfterFrac(ip, DigitPrefix(Tail(r)), Drop(Tail(r), Len(DigitPrefix(Tail(r)))))
  ELSE NumAfterFrac(ip, <<>>, r)

NumUnsigned(u) == NumAfterInt(DigitPrefix(u), Drop(u, Len(DigitPrefix(u))))

NumSigned(t) ==
  IF t = <<>> THEN Dec(0, 0)
  ELSE IF Head(t) = "-" THEN DecNeg(NumUnsigned(Tail(t)))
  ELSE IF Head(t) = "+" THEN NumUnsigned(Tail(t))
  ELSE NumUnsigned(t)

\* Number(s) for decimal literals: the trimmed text is empty (0), or an
\* optional sign, digits with an optional fraction, and an optional exponent;
\* anything else is NaN.  The value is kept exact, as m * 10^e.
Number(s) == NumSigned(Trim(s))

RECURSIVE NumDigits(_)
NumDigits(n) == IF n < 10 THEN 1 ELSE 1 + NumDigits(n \div 10)

RECURSIVE Pow10(_)
Pow10(n) == IF n = 0 THEN 1 ELSE 10 * Pow10(n - 1)

DecSign(a) == IF a.m > 0 THEN 1 ELSE IF a.m < 0 THEN 0 - 1 ELSE 0
DecAbs(a) == IF a.m < 0 THEN [a EXCEPT !.m = 0 - a.m] ELSE a

\* a < b for two positive decimals: by order of magnitude first, then by the
\* mantissas brought to the smaller exponent.
MagLess(a, b) ==
  LET oa == NumDigits(a.m) + a.e
      ob == NumDigits(b.m) + b.e
      e0 == IF a.e < b.e THEN a.e ELSE b.e
  IN IF oa # ob THEN oa < ob
     ELSE a.m * Pow10(a.e - e0) < b.m * Pow10(b.e - e0)

\* The < and <= of JavaScript numbers: false when either side is NaN.
DecLess(a, b) ==
  /\ ~a.nan
  /\ ~b.nan
  /\ IF DecSign(a) # DecSign(b) THEN DecSign(a) < DecSign(b)
     ELSE IF DecSign(a) = 0 THEN FALSE
     ELSE IF DecSign(a) = 1 THEN MagLess(a, b)
     ELSE MagLess(DecAbs(b), DecAbs(a))

DecLeq(a, b) == ~a.nan /\ ~b.nan /\ ~DecLess(b, a)

\* String.prototype.replace(/\D/g, ''): the digits of s, in order.
RECURSIVE StripNonDigits(_)
StripNonDigits(s) ==
  IF s = <<>> THEN <<>>
  ELSE (IF Head(s) \in Digits THEN <<Head(s)>> ELSE <<>>) \o StripNonDigits(Tail(s))

Min(a, b) == IF a < b THEN a ELSE b
Max(a, b) == IF a > b THEN a ELSE b

\* ------------------------------------------------- arithmetic of the estimate

\* The estimate multiplies and adds decimal numbers; the model keeps them
\* exact.  A natural number is the sequence of its decimal digits, the least
\* significant first and no leading zero, so that zero is <<>>.
RECURSIVE NatOf(_)
NatOf(n) == IF n = 0 THEN <<>> ELSE <<n % 10>> \o NatOf(n \div 10)

RECURSIVE NatValue(_)
NatValue(d) == IF d = <<>> THEN 0 ELSE Head(d) + 10 * NatValue(Tail(d))

RECURSIVE NatNorm(_)
NatNorm(d) ==
  IF d = <<>> \/ d[Len(d)] # 0 THEN d ELSE NatNorm(SubSeq(d, 1, Len(d) - 1))

NatHead(d) == IF d = <<>> THEN 0 ELSE Head(d)
NatTail(d) == IF d = <<>> THEN <<>> ELSE Tail(d)

RECURSIVE NatAddCarry(_, _, _)
NatAddCarry(a, b, c) ==
  IF a = <<>> /\ b = <<>> THEN NatOf(c)
  ELSE <<(NatHead(a) + NatHead(b) + c) % 10>>
         \o NatAddCarry(NatTail(a), NatTail(b), (NatHead(a) + NatHead(b) + c) \div 10)

NatAdd(a, b) == NatAddCarry(a, b, 0)

\* a - b - c for a >= b + c, digit by digit with the borrow c.
RECURSIVE NatSubBorrow(_, _, _)
NatSubBorrow(a, b, c) ==
  IF a = <<>> THEN <<>>
  ELSE <<(10 + Head(a) - NatHead(b) - c) % 10>>
         \o NatSubBorrow(Tail(a), NatTail(b),
                         IF Head(a) - NatHead(b) - c < 0 THEN 1 ELSE 0)

NatSub(a, b) == NatNorm(NatSubBorrow(a, b, 0))

\* a < b: the shorter is the smaller, and of two of one length the one with
\* the smaller most significant digit that differs.
RECURSIVE NatLess(_, _)
NatLess(a, b) ==
  IF Len(a) # Len(b) THEN Len(a) < Len(b)
  ELSE IF a = <<>> THEN FALSE
  ELSE IF a[Len(a)] # b[Len(b)] THEN a[Len(a)] < b[Len(b)]
  ELSE NatLess(SubSeq(a, 1, Len(a) - 1), SubSeq(b, 1, Len(b) - 1))

RECURSIVE NatMulDigit(_, _, _)
NatMulDigit(a, k, c) ==
  IF a = <<>> THEN NatOf(c)
  ELSE <<(Head(a) * k + c) % 10>> \o NatMulDigit(Tail(a), k, (Head(a) * k + c) \div 10)

\* d * 10^k.
RECURSIVE NatShift(_, _)
NatShift(d, k) == IF d = <<>> \/ k = 0 THEN d ELSE <<0>> \o NatShift(d, k - 1)

RECURSIVE NatMul(_, _)
NatMul(a, b) ==
  IF a = <<>> \/ b = <<>> THEN <<>>
  ELSE NatAdd(NatNorm(NatMulDigit(a, Head(b), 0)), NatShift(NatMul(a, Tail(b)), 1))

\* A number: (-1)^neg * n * 10^e, n a natural number as above.
Num(m, e) == [neg |-> m < 0, n |-> NatOf(IF m < 0 THEN 0 - m ELSE m), e |-> e]

\* The number of a decimal that is not NaN.
NumOfDec(d) == Num(d.m, d.e)

NumIsZero(x) == x.n = <<>>

\* The digits of x at the exponent e <= x.e.
NumDigitsAt(x, e) == NatShift(x.n, x.e - e)

NumMul(x, y) ==
  [neg |-> x.neg # y.neg /\ x.n # <<>> /\ y.n # <<>>,
   n |-> NatMul(x.n, y.n), e |-> x.e + y.e]

\* x + y of two numbers brought to the exponent e.
NumAddAt(x, y, e) ==
  IF x.neg = y.neg
  THEN [neg |-> x.neg, n |-> NatAdd(NumDigitsAt(x, e), NumDigitsAt(y, e)), e |-> e]
  ELSE IF NatLess(NumDigitsAt(x, e), NumDigitsAt(y, e))
  THEN [neg |-> y.neg, n |-> NatSub(NumDigitsAt(y, e), NumDigitsAt(x, e)), e |-> e]
  ELSE [neg |-> x.neg /\ NumDigitsAt(x, e) # NumDigitsAt(y, e),
        n |-> NatSub(NumDigitsAt(x, e), NumDigitsAt(y, e)), e |-> e]

NumAdd(x, y) == NumAddAt(x, y, Min(x.e, y.e))

NumNeg(x) == [x EXCEPT !.neg = ~x.neg /\ x.n # <<>>]

NumSub(x, y) == NumAdd(x, NumNeg(y))

\* The digits of x below the unit, as a natural number of -x.e digits, and
\* the half of the unit at that scale.
NumFraction(x) == NatNorm(SubSeq(x.n, 1, Min(Len(x.n), 0 - x.e)))
NumHalf(x) == NatShift(<<5>>, 0 - x.e - 1)

\* The whole part of the magnitude of x, for x.e < 0.
NumWhole(x) == NatValue(SubSeq(x.n, 1 - x.e, Len(x.n)))

\* Math.round(x): the integer nearest to x, the upper one of two equally
\* near.
MathRound(x) ==
  IF x.e >= 0 THEN (IF x.neg THEN 0 - 1 ELSE 1) * NatValue(NatShift(x.n, x.e))
  ELSE IF ~x.neg
  THEN NumWhole(x) + (IF NatLess(NumFraction(x), NumHalf(x)) THEN 0 ELSE 1)
  ELSE 0 - (NumWhole(x) + (IF NatLess(NumHalf(x), NumFraction(x)) THEN 1 ELSE 0))

\* The longest prefix of r that is a decimal literal's exponent part, given
\* that r follows digits: "e", an optional sign and digits.
FloatExpPrefix(r) ==
  IF r # <<>> /\ Head(r) \in {"e", "E"}
  THEN IF Tail(r) # <<>> /\ Head(Tail(r)) \in {"+", "-"}
       THEN (IF DigitPrefix(Tail(Tail(r))) = <<>> THEN <<>>
             ELSE <<Head(r), Head(Tail(r))>> \o DigitPrefix(Tail(Tail(r))))
       ELSE (IF DigitPrefix(Tail(r)) = <<>> THEN <<>>
             ELSE <<Head(r)>> \o DigitPrefix(Tail(r)))
  ELSE <<>>

\* The fraction part at the head of r: "." and the digits after it.
FloatFracPrefix(r) ==
  IF r # <<>> /\ Head(r) = "." THEN <<".">> \o DigitPrefix(Tail(r)) ELSE <<>>

\* The literal at the head of the unsigned text u, given its integer digits
\* ip and fraction part fr; empty when there is no digit in either.
FloatLiteral(u, ip, fr) ==
  IF ip = <<>> /\ Len(fr) <= 1 THEN <<>>
  ELSE ip \o fr \o FloatExpPrefix(Drop(u, Len(ip) + Len(fr)))

FloatUnsigned(u) ==
  FloatLiteral(u, DigitPrefix(u), FloatFracPrefix(Drop(u, Len(DigitPrefix(u)))))

\* parseFloat(s): leading white space is skipped, and the longest prefix that
\* is a decimal literal is read; NaN when there is none.
ParseFloatSigned(t) ==
  IF t # <<>> /\ Head(t) \in {"+", "-"}
  THEN (IF FloatUnsigned(Tail(t)) = <<>> THEN NaNDec
        ELSE Number(<<Head(t)>> \o FloatUnsigned(Tail(t))))
  ELSE IF FloatUnsigned(t) = <<>> THEN NaNDec ELSE Number(FloatUnsigned(t))

parseFloat(s) == ParseFloatSigned(TrimStart(s))

\* x || 0 for a number x: 0 for NaN (and for 0).
OrZero(d) == IF d.nan THEN Num(0, 0) ELSE NumOfDec(d)

\* ------------------------------------------------------- location data

\* A small Freguesias.json: two districts, and one municipality name ("Lagoa")
\* that occurs in both, as it does in the real data.
FreguesiasData ==
  << [distrito |-> "Faro",
      concelhos |-> << [concelho |-> "Faro", freguesias |-> <<"Montenegro">>],
                       [concelho |-> "Lagoa", freguesias |-> <<"Porches">>] >>],
     [distrito |-> "Acores",
      concelhos |-> << [concelho |-> "Lagoa", freguesias |-> <<"Cabouco">>] >>] >>

SeqRange(q) == {q[i] : i \in DOMAIN q}

districtOptions == {FreguesiasData[i].distrito : i \in DOMAIN FreguesiasData}

\* municipalitiesByDistrict[d] || []: the object of district d read last sets
\* the list (the loop assigns a fresh list per object).
municipalitiesByDistrict(d) ==
  LET idx == {i \in DOMAIN FreguesiasData : FreguesiasData[i].distrito = d}
  IN IF idx = {} THEN {}
     ELSE LET i == CHOOSE k \in idx : \A j \in idx : j <= k
          IN {FreguesiasData[i].concelhos[j].concelho :
                j \in DOMAIN FreguesiasData[i].concelhos}

\* parishesByMunicipality[c] || []: the map is keyed by the municipality name
\* alone, so the municipality of that name read last sets the list.
parishesByMunicipality(c) ==
  LET idx == UNION {{<<i, j>> : j \in {k \in DOMAIN FreguesiasData[i].concelhos :
                                          FreguesiasData[i].concelhos[k].concelho = c}} :
                    i \in DOMAIN FreguesiasData}
  IN IF idx = {} THEN {}
     ELSE LET p == CHOOSE a \in idx :
                     \A b \in idx : b[1] < a[1] \/ (b[1] = a[1] /\ b[2] <= a[2])
          IN SeqRange(FreguesiasData[p[1]].concelhos[p[2]].freguesias)

\* ------------------------------------------------------------- the state

\* useState's initial formData: every text empty, both flags false.
InitialFormData ==
  [ propertyType |-> "", livingArea |-> <<>>, plotArea |-> <<>>, floor |-> <<>>,
    propertyConfig |-> "", yearBuilt |-> <<>>, conservationState |-> "",
    energyClass |-> "", elevator |-> "", balcony |-> "", garage |-> "",
    pool |-> "", garden |-> "", streetAddress |-> <<>>, district |-> "",
    municipality |-> "", parish |-> "", phone |-> <<>>,
    acceptsContact |-> FALSE, wantsProfessionalEvaluation |-> FALSE ]

\* Variants of ComputeSteps with one slip each, used to test the properties.
ComputeStepsAreaLate(propertyType, yearBuilt, year) ==
  <<"Tipo", "AreaUtil", "Tipologia", "Ano">>
  \o (IF propertyType = "Moradia" THEN <<"AreaTotal">>
      ELSE IF propertyType = "Apartamento" THEN <<"Floor">>
      ELSE <<>>)
  \o (IF ~parseInt(yearBuilt).nan /\ year - parseInt(yearBuilt).v > 15
      THEN <<"Conservacao">> ELSE <<>>)
  \o <<"ClasseEnergetica">>
  \o (IF propertyType = "Moradia" THEN <<"Piscina", "Jardim">>
      ELSE IF propertyType = "Apartamento" THEN <<"Elevador", "Varanda", "Garagem">>
      ELSE <<>>)
  \o <<"Localizacao", "Contacto", "Resultado">>

ComputeStepsHouseGarage(propertyType, yearBuilt, year) ==
  <<"Tipo", "AreaUtil">>
  \o (IF propertyType = "Moradia" THEN <<"AreaTotal">>
      ELSE IF propertyType = "Apartamento" THEN <<"Floor">>
      ELSE <<>>)
  \o <<"Tipologia", "Ano">>
  \o (IF ~parseInt(yearBuilt).nan /\ year - parseInt(yearBuilt).v > 15
      THEN <<"Conservacao">> ELSE <<>>)
  \o <<"ClasseEnergetica">>
  \o (IF propertyType = "Moradia" THEN <<"Piscina", "Jardim", "Garagem">>
      ELSE IF propertyType = "Apartamento" THEN <<"Elevador", "Varanda", "Garagem">>
      ELSE <<>>)
  \o <<"Localizacao", "Contacto", "Resultado">>

ComputeStepsBalconyFirst(propertyType, yearBuilt, year) ==
  <<"Tipo", "AreaUtil">>
  \o (IF propertyType = "Moradia" THEN <<"AreaTotal">>
      ELSE IF propertyType = "Apartamento" THEN <<"Floor">>
      ELSE <<>>)
  \o <<"Tipologia", "Ano">>
  \o (IF ~parseInt(yearBuilt).nan /\ year - parseInt(yearBuilt).v > 15
      THEN <<"Conservacao">> ELSE <<>>)
  \o <<"ClasseEnergetica">>
  \o (IF propertyType = "Moradia" THEN <<"Piscina", "Jardim">>
      ELSE IF propertyType = "Apartamento" THEN <<"Varanda", "Elevador", "Garagem">>
      ELSE <<>>)
  \o <<"Localizacao", "Contacto", "Resultado">>

ComputeStepsAgeFrom15(propertyType, yearBuilt, year) ==
  <<"Tipo", "AreaUtil">>
  \o (IF propertyType = "Moradia" THEN <<"AreaTotal">>
      ELSE IF propertyType = "Apartamento" THEN <<"Floor">>
      ELSE <<>>)
  \o <<"Tipologia", "Ano">>
  \o (IF ~parseInt(yearBuilt).nan /\ year - parseInt(yearBuilt).v >= 15
      THEN <<"Conservacao">> ELSE <<>>)
  \o <<"ClasseEnergetica">>
  \o (IF propertyType = "Moradia" THEN <<"Piscina", "Jardim">>
      ELSE IF propertyType = "Apartamento" THEN <<"Elevador", "Varanda", "Garagem">>
      ELSE <<>>)
  \o <<"Localizacao", "Contacto", "Resultado">>

ComputeStepsFourChars(propertyType, yearBuilt, year) ==
  <<"Tipo", "AreaUtil">>
  \o (IF propertyType = "Moradia" THEN <<"AreaTotal">>
      ELSE IF propertyType = "Apartamento" THEN <<"Floor">>
      ELSE <<>>)
  \o <<"Tipologia", "Ano">>
  \o (IF Len(yearBuilt) = 4 /\ ~parseInt(yearBuilt).nan /\ year - parseInt(yearBuilt).v > 15
      THEN <<"Conservacao">> ELSE <<>>)
  \o <<"ClasseEnergetica">>
  \o (IF propertyType = "Moradia" THEN <<"Piscina", "Jardim">>
      ELSE IF propertyType = "Apartamento" THEN <<"Elevador", "Varanda", "Garagem">>
      ELSE <<>>)
  \o <<"Localizacao", "Contacto", "Resultado">>

\* The steps memo with the condition step put before the year step.
ComputeStepsConditionFirst(propertyType, yearBuilt, year) ==
  LET yearNum == parseInt(yearBuilt)
  IN <<"Tipo", "AreaUtil">>
     \o (IF propertyType = "Moradia" THEN <<"AreaTotal">>
         ELSE IF propertyType = "Apartamento" THEN <<"Floor">>
         ELSE <<>>)
     \o <<"Tipologia">>
     \o (IF ~yearNum.nan /\ year - yearNum.v > 15 THEN <<"Conservacao">> ELSE <<>>)
     \o <<"Ano", "ClasseEnergetica">>
     \o (IF propertyType = "Moradia" THEN <<"Piscina", "Jardim">>
         ELSE IF propertyType = "Apartamento" THEN <<"Elevador", "Varanda", "Garagem">>
         ELSE <<>>)
     \o <<"Localizacao", "Contacto", "Resultado">>

\* The steps memo: the ordered step names for a property type and a year text.
ComputeSteps(propertyType, yearBuilt, year) ==
  LET yearNum == parseInt(yearBuilt)
  IN <<"Tipo", "AreaUtil">>
     \o (IF propertyType = "Moradia" THEN <<"AreaTotal">>
         ELSE IF propertyType = "Apartamento" THEN <<"Floor">>
         ELSE <<>>)
     \o <<"Tipologia", "Ano">>
     \o (IF ~yearNum.nan /\ year - yearNum.v > 15 THEN <<"Conservacao">> ELSE <<>>)
     \o <<"ClasseEnergetica">>
     \o (IF propertyType = "Moradia" THEN <<"Piscina", "Jardim">>
         ELSE IF propertyType = "Apartamento" THEN <<"Elevador", "Varanda", "Garagem">>
         ELSE <<>>)
     \o <<"Localizacao", "Contacto", "Resultado">>

\* steps[i] of the code (0-based); "undefined" outside the list.
StepAt(list, i) == IF i + 1 \in DOMAIN list THEN list[i + 1] ELSE "undefined"

StepName == StepAt(steps, currentStep)

\* isNextDisabled counting the characters of the phone field as typed.
IsNextDisabledPhoneLength(stepName, fd) ==
  CASE stepName = "Tipo" -> fd.propertyType = ""
    [] stepName = "AreaUtil" ->
         Trim(fd.livingArea) = <<>> \/ DecLeq(Number(fd.livingArea), Dec(0, 0))
    [] stepName = "AreaTotal" ->
         \/ Trim(fd.plotArea) = <<>>
         \/ DecLeq(Number(fd.plotArea), Dec(0, 0))
         \/ DecLeq(Number(fd.plotArea), Number(fd.livingArea))
    [] stepName = "Floor" ->
         Trim(fd.floor) = <<>> \/ DecLess(Number(fd.floor), Dec(0, 0))
    [] stepName = "Tipologia" -> fd.propertyConfig = ""
    [] stepName = "Ano" ->
         \/ Trim(fd.yearBuilt) = <<>>
         \/ Number(fd.yearBuilt).nan
         \/ DecLess(Number(fd.yearBuilt), Dec(1900, 0))
         \/ DecLess(Dec(2025, 0), Number(fd.yearBuilt))
    [] stepName = "Conservacao" -> fd.conservationState = ""
    [] stepName = "ClasseEnergetica" -> fd.energyClass = ""
    [] stepName = "Piscina" -> fd.pool = ""
    [] stepName = "Jardim" -> fd.garden = ""
    [] stepName = "Elevador" -> fd.elevator = ""
    [] stepName = "Varanda" -> fd.balcony = ""
    [] stepName = "Garagem" -> fd.garage = ""
    [] stepName = "Localizacao" ->
         fd.district = "" \/ fd.municipality = "" \/ fd.parish = ""
    [] stepName = "Contacto" -> Len(fd.phone) # 9
    [] OTHER -> FALSE

\* isNextDisabled with no upper end of the year range.
IsNextDisabledYearFrom1900(stepName, fd) ==
  CASE stepName = "Tipo" -> fd.propertyType = ""
    [] stepName = "AreaUtil" ->
         Trim(fd.livingArea) = <<>> \/ DecLeq(Number(fd.livingArea), Dec(0, 0))
    [] stepName = "AreaTotal" ->
         \/ Trim(fd.plotArea) = <<>>
         \/ DecLeq(Number(fd.plotArea), Dec(0, 0))
         \/ DecLeq(Number(fd.plotArea), Number(fd.livingArea))
    [] stepName = "Floor" ->
         Trim(fd.floor) = <<>> \/ DecLess(Number(fd.floor), Dec(0, 0))
    [] stepName = "Tipologia" -> fd.propertyConfig = ""
    [] stepName = "Ano" ->
         \/ Trim(fd.yearBuilt) = <<>>
         \/ Number(fd.yearBuilt).nan
         \/ DecLess(Number(fd.yearBuilt), Dec(1900, 0))
    [] stepName = "Conservacao" -> fd.conservationState = ""
    [] stepName = "ClasseEnergetica" -> fd.energyClass = ""
    [] stepName = "Piscina" -> fd.pool = ""
    [] stepName = "Jardim" -> fd.garden = ""
    [] stepName = "Elevador" -> fd.elevator = ""
    [] stepName = "Varanda" -> fd.balcony = ""
    [] stepName = "Garagem" -> fd.garage = ""
    [] stepName = "Localizacao" ->
         fd.district = "" \/ fd.municipality = "" \/ fd.parish = ""
    [] stepName = "Contacto" -> Len(StripNonDigits(fd.phone)) # 9
    [] OTHER -> FALSE

\* isNextDisabled letting a plot area equal to the living area through.
IsNextDisabledPlotAtLeast(stepName, fd) ==
  CASE stepName = "Tipo" -> fd.propertyType = ""
    [] stepName = "AreaUtil" ->
         Trim(fd.livingArea) = <<>> \/ DecLeq(Number(fd.livingArea), Dec(0, 0))
    [] stepName = "AreaTotal" ->
         \/ Trim(fd.plotArea) = <<>>
         \/ DecLeq(Number(fd.plotArea), Dec(0, 0))
         \/ DecLess(Number(fd.plotArea), Number(fd.livingArea))
    [] stepName = "Floor" ->
         Trim(fd.floor) = <<>> \/ DecLess(Number(fd.floor), Dec(0, 0))
    [] stepName = "Tipologia" -> fd.propertyConfig = ""
    [] stepName = "Ano" ->
         \/ Trim(fd.yearBuilt) = <<>>
         \/ Number(fd.yearBuilt).nan
         \/ DecLess(Number(fd.yearBuilt), Dec(1900, 0))
         \/ DecLess(Dec(2025, 0), Number(fd.yearBuilt))
    [] stepName = "Conservacao" -> fd.conservationState = ""
    [] stepName = "ClasseEnergetica" -> fd.energyClass = ""
    [] stepName = "Piscina" -> fd.pool = ""
    [] stepName = "Jardim" -> fd.garden = ""
    [] stepName = "Elevador" -> fd.elevator = ""
    [] stepName = "Varanda" -> fd.balcony = ""
    [] stepName = "Garagem" -> fd.garage = ""
    [] stepName = "Localizacao" ->
         fd.district = "" \/ fd.municipality = "" \/ fd.parish = ""
    [] stepName = "Contacto" -> Len(StripNonDigits(fd.phone)) # 9
    [] OTHER -> FALSE

\* The isNextDisabled memo for a step name and an answer set.
IsNextDisabled(stepName, fd) ==
  CASE stepName = "Tipo" -> fd.propertyType = ""
    [] stepName = "AreaUtil" ->
         Trim(fd.livingArea) = <<>> \/ DecLeq(Number(fd.livingArea), Dec(0, 0))
    [] stepName = "AreaTotal" ->
         \/ Trim(fd.plotArea) = <<>>
         \/ DecLeq(Number(fd.plotArea), Dec(0, 0))
         \/ DecLeq(Number(fd.plotArea), Number(fd.livingArea))
    [] stepName = "Floor" ->
         Trim(fd.floor) = <<>> \/ DecLess(Number(fd.floor), Dec(0, 0))
    [] stepName = "Tipologia" -> fd.propertyConfig = ""
    [] stepName = "Ano" ->
         \/ Trim(fd.yearBuilt) = <<>>
         \/ Number(fd.yearBuilt).nan
         \/ DecLess(Number(fd.yearBuilt), Dec(1900, 0))
         \/ DecLess(Dec(2025, 0), Number(fd.yearBuilt))
    [] stepName = "Conservacao" -> fd.conservationState = ""
    [] stepName = "ClasseEnergetica" -> fd.energyClass = ""
    [] stepName = "Piscina" -> fd.pool = ""
    [] stepName = "Jardim" -> fd.garden = ""
    [] stepName = "Elevador" -> fd.elevator = ""
    [] stepName = "Varanda" -> fd.balcony = ""
    [] stepName = "Garagem" -> fd.garage = ""
    [] stepName = "Localizacao" ->
         fd.district = "" \/ fd.municipality = "" \/ fd.parish = ""
    [] stepName = "Contacto" -> Len(StripNonDigits(fd.phone)) # 9
    [] OTHER -> FALSE

\* goToNextStep's updater without its clamp.
NextIndexUnclamped(s, len) == s + 1

\* The updater functions of goToNextStep and goToPreviousStep.
NextIndex(s, len) == Min(s + 1, len - 1)
PrevIndex(s) == Max(s - 1, 0)

\* ------------------------------------------------------------ the estimate

\* The price list read from precos_m2_concelhos.json: two municipalities of
\* the location data have a price.
precos ==
  << [Concelho |-> "Faro", Preco |-> 2000],
     [Concelho |-> "Lagoa", Preco |-> 1800] >>

\* pricePerMunicipality: the list as a dictionary, later items overwriting.
pricePerMunicipality ==
  [c \in {precos[i].Concelho : i \in DOMAIN precos} |->
     precos[CHOOSE i \in DOMAIN precos :
              /\ precos[i].Concelho = c
              /\ \A j \in DOMAIN precos : precos[j].Concelho = c => j <= i].Preco]

\* getPricePerSquareMeter without the default.
getPricePerSquareMeterNoDefault(municipality) ==
  IF municipality \in DOMAIN pricePerMunicipality
  THEN Num(pricePerMunicipality[municipality], 0)
  ELSE Num(0, 0)

getPricePerSquareMeter(municipality) ==
  IF municipality \in DOMAIN pricePerMunicipality
  THEN Num(pricePerMunicipality[municipality], 0)
  ELSE Num(1500, 0)

\* String.prototype.toUpperCase on the texts of the option cards and their
\* lower-case spellings.
toUpperCase(s) ==
  CASE s = "t0" -> "T0" [] s = "t1" -> "T1" [] s = "t2" -> "T2"
    [] s = "t3" -> "T3" [] s = "t4" -> "T4" [] s = "t4+" -> "T4+"
    [] s = "a+" -> "A+" [] s = "a" -> "A" [] s = "b" -> "B"
    [] s = "c" -> "C" [] s = "d" -> "D" [] s = "e" -> "E"
    [] OTHER -> s

\* t.startsWith('T4') on those texts.
StartsWithT4(t) == t \in {"T4", "T4+"}

getTipologyAdj(tip) ==
  CASE toUpperCase(tip) = "T0" -> Num(0 - 15, 0 - 2)
    [] toUpperCase(tip) = "T1" -> Num(0 - 10, 0 - 2)
    [] toUpperCase(tip) = "T2" -> Num(0 - 5, 0 - 2)
    [] toUpperCase(tip) = "T3" -> Num(0, 0)
    [] StartsWithT4(toUpperCase(tip)) -> Num(10, 0 - 2)
    [] OTHER -> Num(0, 0)

getTipologyFactor(tip) ==
  CASE toUpperCase(tip) = "T0" -> Num(85, 0 - 2)
    [] toUpperCase(tip) = "T1" -> Num(90, 0 - 2)
    [] toUpperCase(tip) = "T2" -> Num(95, 0 - 2)
    [] toUpperCase(tip) = "T3" -> Num(100, 0 - 2)
    [] StartsWithT4(toUpperCase(tip)) -> Num(110, 0 - 2)
    [] OTHER -> Num(100, 0 - 2)

\* getAgeAdj with the thresholds taken from the age itself on.
getAgeAdjInclusive(ano, year) ==
  IF parseInt(ano).nan THEN Num(0, 0)
  ELSE IF year - parseInt(ano).v >= 20 THEN Num(0 - 10, 0 - 2)
  ELSE IF year - parseInt(ano).v >= 15 THEN Num(0 - 5, 0 - 2)
  ELSE IF year - parseInt(ano).v >= 10 THEN Num(0, 0)
  ELSE Num(15, 0 - 2)

\* year stands for new Date().getFullYear().
getAgeAdj(ano, year) ==
  IF parseInt(ano).nan THEN Num(0, 0)
  ELSE IF year - parseInt(ano).v > 20 THEN Num(0 - 10, 0 - 2)
  ELSE IF year - parseInt(ano).v > 15 THEN Num(0 - 5, 0 - 2)
  ELSE IF year - parseInt(ano).v > 10 THEN Num(0, 0)
  ELSE Num(15, 0 - 2)

\* getAgeFactor with the thresholds taken from the age itself on.
getAgeFactorInclusive(ano, year) ==
  IF parseInt(ano).nan THEN Num(100, 0 - 2)
  ELSE IF year - parseInt(ano).v >= 20 THEN Num(90, 0 - 2)
  ELSE IF year - parseInt(ano).v >= 15 THEN Num(95, 0 - 2)
  ELSE IF year - parseInt(ano).v >= 10 THEN Num(100, 0 - 2)
  ELSE Num(115, 0 - 2)

getAgeFactor(ano, year) ==
  IF parseInt(ano).nan THEN Num(100, 0 - 2)
  ELSE IF year - parseInt(ano).v > 20 THEN Num(90, 0 - 2)
  ELSE IF year - parseInt(ano).v > 15 THEN Num(95, 0 - 2)
  ELSE IF year - parseInt(ano).v > 10 THEN Num(100, 0 - 2)
  ELSE Num(115, 0 - 2)

getStateAdj(state) ==
  IF state = "good" THEN Num(10, 0 - 2)
  ELSE IF state = "needs_renovation" THEN Num(0 - 5, 0 - 2)
  ELSE Num(0, 0)

\* getStateFactor with the two factors exchanged.
getStateFactorSwapped(state) ==
  IF state = "good" THEN Num(95, 0 - 2)
  ELSE IF state = "needs_renovation" THEN Num(110, 0 - 2)
  ELSE Num(100, 0 - 2)

getStateFactor(state) ==
  IF state = "good" THEN Num(110, 0 - 2)
  ELSE IF state = "needs_renovation" THEN Num(95, 0 - 2)
  ELSE Num(100, 0 - 2)

\* getClassAdj giving class B nothing.
getClassAdjOnlyA(cl) ==
  IF toUpperCase(cl) = "A+" THEN Num(5, 0 - 2)
  ELSE IF toUpperCase(cl) = "A" THEN Num(2, 0 - 2)
  ELSE Num(0, 0)

getClassAdj(cl) ==
  IF toUpperCase(cl) = "A+" THEN Num(5, 0 - 2)
  ELSE IF toUpperCase(cl) \in {"A", "B"} THEN Num(2, 0 - 2)
  ELSE Num(0, 0)

getClassFactor(cl) ==
  IF toUpperCase(cl) = "A+" THEN Num(105, 0 - 2)
  ELSE IF toUpperCase(cl) \in {"A", "B"} THEN Num(102, 0 - 2)
  ELSE Num(100, 0 - 2)

getFloorAdj(floorStr, elevator) ==
  IF parseInt(floorStr).nan THEN Num(0, 0)
  ELSE IF parseInt(floorStr).v = 0 THEN Num(0 - 5, 0 - 2)
  ELSE IF parseInt(floorStr).v \in {1, 2} THEN Num(0, 0)
  ELSE IF parseInt(floorStr).v >= 3
  THEN (IF elevator = "Sim" THEN Num(3, 0 - 2) ELSE Num(0 - 10, 0 - 2))
  ELSE Num(0, 0)

\* getElevatorAdj giving the bonus only where getFloorAdj gives none.
getElevatorAdjBelow3(floorStr, elevator) ==
  IF parseInt(floorStr).nan THEN Num(0, 0)
  ELSE IF parseInt(floorStr).v = 2 /\ elevator = "Sim" THEN Num(5, 0 - 2)
  ELSE Num(0, 0)

getElevatorAdj(floorStr, elevator) ==
  IF parseInt(floorStr).nan THEN Num(0, 0)
  ELSE IF parseInt(floorStr).v >= 2 /\ elevator = "Sim" THEN Num(5, 0 - 2)
  ELSE Num(0, 0)

getGarageAdj(gar) == IF gar = "Sim" THEN Num(5, 0 - 2) ELSE Num(0, 0)
getBalconyAdj(bal) == IF bal = "Sim" THEN Num(2, 0 - 2) ELSE Num(0, 0)
getPoolFactor(pool) == IF pool = "Sim" THEN Num(103, 0 - 2) ELSE Num(100, 0 - 2)
getGardenFactor(garden) == IF garden = "Sim" THEN Num(1005, 0 - 3) ELSE Num(1000, 0 - 3)

\* The locals of calculatePropertyValue.
precoM2(fd) == getPricePerSquareMeter(fd.municipality)
areaUtil(fd) == OrZero(parseFloat(fd.livingArea))
areaTotal(fd) ==
  OrZero(parseFloat(IF fd.plotArea # <<>> THEN fd.plotArea ELSE fd.livingArea))

\* The apartment branch: base, totalAdj and price.
base(fd) == NumMul(NumMul(areaUtil(fd), Num(125, 0 - 2)), precoM2(fd))

totalAdj(fd, year) ==
  NumAdd(NumAdd(NumAdd(NumAdd(NumAdd(NumAdd(NumAdd(
    getTipologyAdj(fd.propertyConfig),
    getAgeAdj(fd.yearBuilt, year)),
    getStateAdj(fd.conservationState)),
    getClassAdj(fd.energyClass)),
    getFloorAdj(fd.floor, fd.elevator)),
    getElevatorAdj(fd.floor, fd.elevator)),
    getGarageAdj(fd.garage)),
    getBalconyAdj(fd.balcony))

apartmentPrice(fd, year) == NumMul(base(fd), NumAdd(Num(1, 0), totalAdj(fd, year)))

\* The house branch: baseArea, factors and price.
baseArea(fd) ==
  NumAdd(NumMul(areaUtil(fd), Num(75, 0 - 2)),
         NumMul(NumSub(areaTotal(fd), areaUtil(fd)), Num(35, 0 - 2)))

factors(fd, year) ==
  NumMul(NumMul(NumMul(NumMul(NumMul(NumMul(
    Num(10, 0 - 1),
    getTipologyFactor(fd.propertyConfig)),
    getAgeFactor(fd.yearBuilt, year)),
    getStateFactor(fd.conservationState)),
    getPoolFactor(fd.pool)),
    getGardenFactor(fd.garden)),
    getClassFactor(fd.energyClass))

housePrice(fd, year) == NumMul(NumMul(baseArea(fd), precoM2(fd)), factors(fd, year))

\* calculatePropertyValue taking every kind that is no house for an
\* apartment.
calculatePropertyValueTwoKinds(fd, year) ==
  IF fd.propertyType = "Moradia" THEN MathRound(housePrice(fd, year))
  ELSE MathRound(apartmentPrice(fd, year))

\* calculatePropertyValue() on the answer set fd in the year given.
calculatePropertyValue(fd, year) ==
  IF fd.propertyType = "Apartamento" THEN MathRound(apartmentPrice(fd, year))
  ELSE IF fd.propertyType = "Moradia" THEN MathRound(housePrice(fd, year))
  ELSE 0

\* ------------------------------------------------------------- handlers

\* A state update and the re-render that follows it: the steps memo is
\* recomputed from the new answers.  last records the operation, the index
\* it started from, the fields of the answer set whose value it changed and,
\* for the two location handlers, the value they were called with.
ApplyArg(fd, cs, op, arg) ==
  /\ formData' = fd
  /\ currentStep' = cs
  /\ steps' = ComputeSteps(fd.propertyType, fd.yearBuilt, currentYear)
  /\ last' = [op |-> op, step |-> currentStep, arg |-> arg,
              changed |-> {f \in DOMAIN formData : fd[f] # formData[f]}]
  /\ UNCHANGED <<showWelcome, currentYear, pending>>

Apply(fd, cs, op) == ApplyArg(fd, cs, op, "")

\* "Iniciar avaliacao" on the welcome screen.
StartEvaluation ==
  /\ showWelcome
  /\ showWelcome' = FALSE
  /\ currentStep' = 0
  /\ last' = [op |-> "start", step |-> currentStep, arg |-> "", changed |-> {}]
  /\ UNCHANGED <<formData, steps, currentYear, pending>>

\* The onSelect / onChange handlers of renderStep, one per field.
SelectPropertyType(v) == Apply([formData EXCEPT !.propertyType = v], currentStep, "propertyType")
ChangeLivingArea(v) == Apply([formData EXCEPT !.livingArea = v], currentStep, "livingArea")
ChangePlotArea(v) == Apply([formData EXCEPT !.plotArea = v], currentStep, "plotArea")
ChangeFloor(v) == Apply([formData EXCEPT !.floor = v], currentStep, "floor")
SelectPropertyConfig(v) == Apply([formData EXCEPT !.propertyConfig = v], currentStep, "propertyConfig")
ChangeYearBuilt(v) == Apply([formData EXCEPT !.yearBuilt = v], currentStep, "yearBuilt")
SelectConservationState(v) == Apply([formData EXCEPT !.conservationState = v], currentStep, "conservationState")
SelectEnergyClass(v) == Apply([formData EXCEPT !.energyClass = v], currentStep, "energyClass")
SelectPool(v) == Apply([formData EXCEPT !.pool = v], currentStep, "pool")
SelectGarden(v) == Apply([formData EXCEPT !.garden = v], currentStep, "garden")
SelectElevator(v) == Apply([formData EXCEPT !.elevator = v], currentStep, "elevator")
SelectBalcony(v) == Apply([formData EXCEPT !.balcony = v], currentStep, "balcony")
SelectGarage(v) == Apply([formData EXCEPT !.garage = v], currentStep, "garage")
ChangeStreetAddress(v) == Apply([formData EXCEPT !.streetAddress = v], currentStep, "streetAddress")
ChangeParish(v) == Apply([formData EXCEPT !.parish = v], currentStep, "parish")
ChangePhone(v) == Apply([formData EXCEPT !.phone = v], currentStep, "phone")
ChangeAcceptsContact(b) == Apply([formData EXCEPT !.acceptsContact = b], currentStep, "acceptsContact")
ChangeWantsProfessionalEvaluation(b) ==
  Apply([formData EXCEPT !.wantsProfessionalEvaluation = b], currentStep, "wantsProfessionalEvaluation")

\* The two location handlers with the clearing of the parish forgotten.
handleDistrictChangeKeepsParish(v) ==
  ApplyArg([formData EXCEPT !.district = v, !.municipality = ""],
           currentStep, "district", v)

handleMunicipalityChangeKeepsParish(v) ==
  ApplyArg([formData EXCEPT !.municipality = v], currentStep, "municipality", v)

handleDistrictChange(v) ==
  ApplyArg([formData EXCEPT !.district = v, !.municipality = "", !.parish = ""],
           currentStep, "district", v)

handleMunicipalityChange(v) ==
  ApplyArg([formData EXCEPT !.municipality = v, !.parish = ""],
           currentStep, "municipality", v)

goToNextStep == Apply(formData, NextIndex(currentStep, Len(steps)), "goToNextStep")

goToPreviousStep == Apply(formData, PrevIndex(currentStep), "goToPreviousStep")

\* a || b for two texts of the option cards.
OrElse(a, b) == IF a # "" THEN a ELSE b

\* The payload handleSubmit builds, with the columns' names in ASCII.
Payload(fd, year) ==
  [Distrito |-> fd.district,
   Concelho |-> fd.municipality,
   Freguesia |-> fd.parish,
   Morada |-> IF Trim(fd.streetAddress) = <<>> THEN <<"0">> ELSE fd.streetAddress,
   Tipo |-> fd.propertyType,
   AreaUtil |-> fd.livingArea,
   AreaTotal |-> IF fd.plotArea # <<>> THEN fd.plotArea ELSE fd.livingArea,
   Tipologia |-> fd.propertyConfig,
   AnoConstrucao |-> fd.yearBuilt,
   Estado |-> fd.conservationState,
   Piscina |-> OrElse(fd.pool, "False"),
   Jardim |-> OrElse(fd.garden, "False"),
   Garagem |-> OrElse(fd.garage, "False"),
   Elevador |-> OrElse(fd.elevator, "False"),
   Varanda |-> OrElse(fd.balcony, "False"),
   ClasseEnergetica |-> OrElse(fd.energyClass, "Sem classe"),
   Telemovel |-> fd.phone,
   OuvirPropostas |-> IF fd.acceptsContact THEN "Sim" ELSE "Nao",
   AvaliacaoPresencial |-> IF fd.wantsProfessionalEvaluation THEN "Sim" ELSE "Nao",
   ValorEstimado |-> calculatePropertyValue(fd, year)]

\* What the call of fetch does: it returns the promise of a request now in
\* flight, or it throws at once.
FetchOutcomes == {"sent", "threw"}

\* The submission with the payload, the call of fetch with the outcome
\* given, and the index set to cs.  The history keeps the payload and the
\* outcome.
Submit(outcome, cs) ==
  /\ outcome = "sent" => pending < MaxPending
  /\ pending' = IF outcome = "sent" THEN pending + 1 ELSE pending
  /\ formData' = formData
  /\ currentStep' = cs
  /\ steps' = ComputeSteps(formData.propertyType, formData.yearBuilt, currentYear)
  /\ last' = [op |-> "handleSubmit", step |-> currentStep,
              arg |-> [fetch |-> outcome, payload |-> Payload(formData, currentYear)],
              changed |-> {}]
  /\ UNCHANGED <<showWelcome, currentYear>>

\* handleSubmit going on to the result only when fetch did not throw.
handleSubmitStopsOnThrow ==
  \E outcome \in FetchOutcomes :
    Submit(outcome, IF outcome = "sent" THEN NextIndex(currentStep, Len(steps))
                    ELSE currentStep)

\* handleSubmit: the payload is built, the POST is dispatched inside a try
\* and not awaited, then goToNextStep.
handleSubmit ==
  \E outcome \in FetchOutcomes : Submit(outcome, NextIndex(currentStep, Len(steps)))

\* The request's promise is fulfilled, or rejected: the then / the catch
\* callback writes to the console.
FetchFulfilled ==
  /\ pending > 0
  /\ pending' = pending - 1
  /\ UNCHANGED <<formData, currentStep, showWelcome, steps, currentYear, last>>

FetchRejected ==
  /\ pending > 0
  /\ pending' = pending - 1
  /\ UNCHANGED <<formData, currentStep, showWelcome, steps, currentYear, last>>

\* The valuation memo computed on every step.
valuationOnEveryStep ==
  [null |-> FALSE, value |-> calculatePropertyValue(formData, currentYear)]

\* The valuation memo: null off the result step, the estimate on it.
valuation ==
  IF StepName # "Resultado" THEN [null |-> TRUE]
  ELSE [null |-> FALSE, value |-> calculatePropertyValue(formData, currentYear)]

\* The reset with the consent to be contacted left as it was.
ResetFormKeepsConsent ==
  Apply([InitialFormData EXCEPT !.acceptsContact = formData.acceptsContact],
        0, "reset")

\* The reset with the step index left where it was.
ResetFormKeepsStep == Apply(InitialFormData, currentStep, "reset")

\* setFormData({...all empty...}); setCurrentStep(0).
ResetForm == Apply(InitialFormData, 0, "reset")

handlePrimaryButton ==
  IF StepName = "Contacto" THEN handleSubmit
  ELSE IF StepName = "Resultado" THEN ResetForm
  ELSE goToNextStep

\* ------------------------------------------------------ the rendered UI

\* renderStep shows the inputs of the current step only, once the welcome
\* screen is dismissed.
Rendered(stepName) == ~showWelcome /\ StepName = stepName

\* The option cards and inputs of each step; S is the set of values the user
\* may pick or enter in the run.
EditPropertyType(S) == \E v \in S : Rendered("Tipo") /\ SelectPropertyType(v)
EditLivingArea(S) == \E v \in S : Rendered("AreaUtil") /\ ChangeLivingArea(v)
EditPlotArea(S) == \E v \in S : Rendered("AreaTotal") /\ ChangePlotArea(v)
EditFloor(S) == \E v \in S : Rendered("Floor") /\ ChangeFloor(v)
EditPropertyConfig(S) == \E v \in S : Rendered("Tipologia") /\ SelectPropertyConfig(v)
EditYearBuilt(S) == \E v \in S : Rendered("Ano") /\ ChangeYearBuilt(v)
EditConservationState(S) == \E v \in S : Rendered("Conservacao") /\ SelectConservationState(v)
EditEnergyClass(S) == \E v \in S : Rendered("ClasseEnergetica") /\ SelectEnergyClass(v)
EditPool(S) == \E v \in S : Rendered("Piscina") /\ SelectPool(v)
EditGarden(S) == \E v \in S : Rendered("Jardim") /\ SelectGarden(v)
EditElevator(S) == \E v \in S : Rendered("Elevador") /\ SelectElevator(v)
EditBalcony(S) == \E v \in S : Rendered("Varanda") /\ SelectBalcony(v)
EditGarage(S) == \E v \in S : Rendered("Garagem") /\ SelectGarage(v)
EditStreetAddress(S) == \E v \in S : Rendered("Localizacao") /\ ChangeStreetAddress(v)
EditPhone(S) == \E v \in S : Rendered("Contacto") /\ ChangePhone(v)

\* A checkbox reports the negation of what it shows.
ToggleAcceptsContact ==
  Rendered("Contacto") /\ ChangeAcceptsContact(~formData.acceptsContact)
ToggleWantsProfessionalEvaluation ==
  /\ Rendered("Contacto")
  /\ ChangeWantsProfessionalEvaluation(~formData.wantsProfessionalEvaluation)

\* The three cascading selects of the location step; a select reports a
\* change only to another of its options, and is disabled without a parent.
SelectDistrict ==
  /\ Rendered("Localizacao")
  /\ \E v \in ({""} \cup districtOptions) \ {formData.district} : handleDistrictChange(v)

SelectMunicipality ==
  /\ Rendered("Localizacao")
  /\ formData.district # ""
  /\ \E v \in ({""} \cup municipalitiesByDistrict(formData.district)) \ {formData.municipality} :
       handleMunicipalityChange(v)

SelectParish ==
  /\ Rendered("Localizacao")
  /\ formData.municipality # ""
  /\ \E v \in ({""} \cup parishesByMunicipality(formData.municipality)) \ {formData.parish} :
       ChangeParish(v)

\* The primary button without its disabled attribute.
ClickPrimaryAlways ==
  /\ ~showWelcome
  /\ StepName # "Resultado"
  /\ handlePrimaryButton

\* The primary button: hidden on Resultado, disabled by isNextDisabled.
ClickPrimary ==
  /\ ~showWelcome
  /\ StepName # "Resultado"
  /\ ~IsNextDisabled(StepName, formData)
  /\ handlePrimaryButton

\* A press of the primary button while it is disabled: the browser fires no
\* click event, so no handler runs; only the history records the press.
ClickPrimaryDisabled ==
  /\ ~showWelcome
  /\ StepName # "Resultado"
  /\ IsNextDisabled(StepName, formData)
  /\ last' = [op |-> "primaryDisabled", step |-> currentStep, arg |-> "",
              changed |-> {}]
  /\ UNCHANGED <<formData, currentStep, showWelcome, steps, currentYear, pending>>

\* The "Voltar" arrow: shown past the first step, hidden on Resultado.
ClickBack ==
  /\ ~showWelcome
  /\ currentStep > 0
  /\ StepName # "Resultado"
  /\ goToPreviousStep

\* "Nova Avaliacao" on the result step.
ClickNewEvaluation == Rendered("Resultado") /\ ResetForm

\* ---------------------------------------- what a number input reports

\* An <input type="number"> reports "" unless its text is a valid
\* floating-point number: an optional "-", digits and/or "." digits, and an
\* optional exponent.
ValidExpDigits(d) == d # <<>> /\ DigitPrefix(d) = d

ValidExp(r) ==
  \/ r = <<>>
  \/ /\ Head(r) \in {"e", "E"}
     /\ ValidExpDigits(IF Tail(r) # <<>> /\ Head(Tail(r)) \in {"+", "-"}
                       THEN Tail(Tail(r)) ELSE Tail(r))

ValidAfterInt(ip, r) ==
  IF r # <<>> /\ Head(r) = "."
  THEN /\ DigitPrefix(Tail(r)) # <<>>
       /\ ValidExp(Drop(Tail(r), Len(DigitPrefix(Tail(r)))))
  ELSE ip # <<>> /\ ValidExp(r)

ValidUnsigned(u) == ValidAfterInt(DigitPrefix(u), Drop(u, Len(DigitPrefix(u))))

IsValidFloat(s) ==
  IF s # <<>> /\ Head(s) = "-" THEN ValidUnsigned(Tail(s)) ELSE ValidUnsigned(s)

\* The characters typed into the year field in the typing runs.
TypedChars == {"0", "1", "2", ".", "-"}

\* The values a number input may report next while the user types or
\* deletes: the current text with one or two characters added or removed
\* (one keystroke may pass through a text that is no number, e.g. "1."),
\* when that is a number or empty.
TypedNext(cur, maxLen) ==
  { w \in { cur \o <<c>> : c \in TypedChars }
          \cup { cur \o <<c, d>> : c \in TypedChars, d \in TypedChars }
          \cup { SubSeq(cur, 1, Len(cur) - k) : k \in {1, 2} } :
      Len(w) <= maxLen /\ (w = <<>> \/ IsValidFloat(w)) }

TypeYearBuilt ==
  /\ Rendered("Ano")
  /\ \E v \in TypedNext(formData.yearBuilt, MaxYearLen) : ChangeYearBuilt(v)

\* The text in a number input, without the sanitization of its value.
InputValueRaw(text) == text

\* e.target.value of a number input holding the text: the text when it is a
\* valid floating-point number, and the empty string otherwise.
InputValue(text) == IF IsValidFloat(text) THEN text ELSE <<>>

\* The user leaves the text in the living-area field / the floor field; the
\* history keeps the text, the answer set what the input reports.
TypeLivingArea(S) ==
  \E t \in S :
    /\ Rendered("AreaUtil")
    /\ ApplyArg([formData EXCEPT !.livingArea = InputValue(t)], currentStep,
                "livingArea", t)

TypeFloor(S) ==
  \E t \in S :
    /\ Rendered("Floor")
    /\ ApplyArg([formData EXCEPT !.floor = InputValue(t)], currentStep,
                "floor", t)

\* ----------------------------------------------------- specifications

Init ==
  /\ formData = InitialFormData
  /\ currentStep = 0
  /\ showWelcome = TRUE
  /\ currentYear \in CurrentYears
  /\ steps = ComputeSteps("", <<>>, currentYear)
  /\ pending = 0
  /\ last = [op |-> "init", step |-> 0, arg |-> "", changed |-> {}]

\* Texts entered in the runs of the whole wizard.
T100 == <<"1", "0", "0">>
T200 == <<"2", "0", "0">>
Y2000 == <<"2", "0", "0", "0">>
Phone9 == <<"9", "1", "2", " ", "3", "4", "5", " ", "6", "7", "8">>
PropertyTypes == {"Moradia", "Apartamento"}

\* The whole wizard, both property types, with one valid answer per question
\* and every option of the location selects.
Next ==
  \/ StartEvaluation
  \/ EditPropertyType(PropertyTypes)
  \/ EditLivingArea({T100})
  \/ EditPlotArea({T200})
  \/ EditFloor({<<"2">>})
  \/ EditPropertyConfig({"T3"})
  \/ EditYearBuilt({Y2000})
  \/ EditConservationState({"good"})
  \/ EditEnergyClass({"B"})
  \/ EditPool({"Sim"})
  \/ EditGarden({"Sim"})
  \/ EditElevator({"Sim"})
  \/ EditBalcony({"Sim"})
  \/ EditGarage({"Sim"})
  \/ EditStreetAddress({<<"R">>})
  \/ SelectDistrict
  \/ SelectMunicipality
  \/ SelectParish
  \/ EditPhone({Phone9})
  \/ ToggleAcceptsContact
  \/ ClickPrimary
  \/ ClickBack
  \/ ClickNewEvaluation
  \/ FetchFulfilled
  \/ FetchRejected

Spec == Init /\ [][Next]_vars

\* The step sequence: both property types, and the year typed a keystroke
\* at a time; the wizard is walked up to the steps that follow the year.
NextSteps ==
  \/ StartEvaluation
  \/ EditPropertyType(PropertyTypes)
  \/ EditLivingArea({T100})
  \/ EditPlotArea({T200})
  \/ EditFloor({<<"2">>})
  \/ EditPropertyConfig({"T3"})
  \/ TypeYearBuilt
  \/ ClickPrimary
  \/ ClickBack

SpecSteps == Init /\ [][NextSteps]_vars

\* ------------------------------------------------ the step sequence

Has(list, x) == \E i \in DOMAIN list : list[i] = x

\* list holds x directly followed by y.
Adjacent(list, x, y) ==
  \E i \in DOMAIN list : i + 1 \in DOMAIN list /\ list[i] = x /\ list[i + 1] = y

Y2010 == <<"2", "0", "1", "0">>

\* C1: in every state the step sequence starts with Tipo, AreaUtil, ends
\* with Localizacao, Contacto, Resultado, and holds Tipologia directly
\* followed by Ano, both after AreaUtil and after AreaTotal / Floor.
C1_SequenceFrame ==
  /\ Len(steps) >= 7
  /\ steps[1] = "Tipo"
  /\ steps[2] = "AreaUtil"
  /\ steps[Len(steps) - 2] = "Localizacao"
  /\ steps[Len(steps) - 1] = "Contacto"
  /\ steps[Len(steps)] = "Resultado"
  /\ \E i \in DOMAIN steps :
       /\ i > 2
       /\ i + 1 \in DOMAIN steps
       /\ steps[i] = "Tipologia"
       /\ steps[i + 1] = "Ano"
       /\ \A j \in DOMAIN steps : steps[j] \in {"AreaTotal", "Floor"} => j < i

\* An apartment whose year text ends in something that is no digit of a year.
C1_Witness ==
  /\ formData.propertyType = "Apartamento"
  /\ formData.yearBuilt = <<"2", "0", ".", "1">>
  /\ Has(steps, "Floor")
  /\ last.op = "yearBuilt"

\* C2: for a Moradia the sequence is exactly Tipo, AreaUtil, AreaTotal,
\* Tipologia, Ano, [Conservacao], ClasseEnergetica, Piscina, Jardim,
\* Localizacao, Contacto, Resultado.
C2_HouseSequence ==
  formData.propertyType = "Moradia" =>
    steps \in { <<"Tipo", "AreaUtil", "AreaTotal", "Tipologia", "Ano">> \o c
                \o <<"ClasseEnergetica", "Piscina", "Jardim",
                     "Localizacao", "Contacto", "Resultado">> :
                c \in {<<>>, <<"Conservacao">>} }

C2_Witness ==
  /\ formData.propertyType = "Moradia"
  /\ formData.yearBuilt = Y2000
  /\ Has(steps, "Conservacao")
  /\ StepName = "Conservacao"

\* C3: for an Apartamento the sequence is exactly Tipo, AreaUtil, Floor,
\* Tipologia, Ano, [Conservacao], ClasseEnergetica, Elevador, Varanda,
\* Garagem, Localizacao, Contacto, Resultado.
C3_ApartmentSequence ==
  formData.propertyType = "Apartamento" =>
    steps \in { <<"Tipo", "AreaUtil", "Floor", "Tipologia", "Ano">> \o c
                \o <<"ClasseEnergetica", "Elevador", "Varanda", "Garagem",
                     "Localizacao", "Contacto", "Resultado">> :
                c \in {<<>>, <<"Conservacao">>} }

C3_Witness ==
  /\ formData.propertyType = "Apartamento"
  /\ formData.yearBuilt = <<"2", "0", "2", "0">>
  /\ ~Has(steps, "Conservacao")
  /\ StepName = "ClasseEnergetica"

\* C4: Conservacao is in the sequence exactly when parseInt of the year text
\* is a number and currentYear minus it exceeds 15; when present it directly
\* follows Ano and directly precedes ClasseEnergetica.
C4_ConditionStep ==
  /\ Has(steps, "Conservacao") <=>
       (~parseInt(formData.yearBuilt).nan
          /\ currentYear - parseInt(formData.yearBuilt).v > 15)
  /\ Has(steps, "Conservacao") =>
       (Adjacent(steps, "Ano", "Conservacao")
          /\ Adjacent(steps, "Conservacao", "ClasseEnergetica"))
  /\ ~Has(steps, "Conservacao") => Adjacent(steps, "Ano", "ClasseEnergetica")

\* The year at the threshold: 2010 is 16 years old in 2026 and has the step.
C4_Witness ==
  /\ formData.yearBuilt = Y2010
  /\ currentYear = 2026
  /\ Has(steps, "Conservacao")

\* C5 as claimed: Conservacao is in the sequence only if the year text is a
\* 4-digit number.
FourDigits(s) == Len(s) = 4 /\ \A i \in DOMAIN s : s[i] \in Digits

C5_OnlyFourDigitYears == Has(steps, "Conservacao") => FourDigits(formData.yearBuilt)

\* The text starts with an integer: after an optional sign, a digit.
StartsWithInteger(s) ==
  \/ s # <<>> /\ Head(s) \in Digits
  \/ Len(s) >= 2 /\ Head(s) \in {"+", "-"} /\ s[2] \in Digits

\* C5 amended: Conservacao is in the sequence only if the year text starts
\* with an integer, and a text of one to three digits always has it.
C5_OnlyLeadingInteger ==
  /\ Has(steps, "Conservacao") => StartsWithInteger(formData.yearBuilt)
  /\ (Len(formData.yearBuilt) \in 1 .. 3
        /\ \A i \in DOMAIN formData.yearBuilt : formData.yearBuilt[i] \in Digits)
       => Has(steps, "Conservacao")

C5_Witness ==
  /\ formData.yearBuilt = <<"2", "0", "1">>
  /\ Has(steps, "Conservacao")
  /\ StepName = "Ano"

\* ------------------------------------------------------- navigation

Y2020 == <<"2", "0", "2", "0">>

\* goToNextStep and goToPreviousStep called in any state, as a caller of the
\* two functions may, on sequences of every shape.
CallGoToNextStep == goToNextStep
CallGoToPreviousStep == goToPreviousStep

NextNav ==
  \/ StartEvaluation
  \/ EditPropertyType(PropertyTypes)
  \/ CallGoToNextStep
  \/ CallGoToPreviousStep
  \/ EditYearBuilt({Y2000, Y2020})

SpecNav == Init /\ [][NextNav]_vars

\* C6: goToNextStep sets the index to min(index + 1, length - 1) and
\* goToPreviousStep to max(index - 1, 0), for the length of the current
\* sequence; from the last step and from the first nothing changes, and
\* neither touches the answer set.
C6_ClampedNavigation ==
  [][ /\ last'.op = "goToNextStep" =>
           /\ currentStep' = Min(currentStep + 1, Len(steps) - 1)
           /\ (currentStep = Len(steps) - 1 => currentStep' = currentStep)
           /\ formData' = formData
      /\ last'.op = "goToPreviousStep" =>
           /\ currentStep' = Max(currentStep - 1, 0)
           /\ (currentStep = 0 => currentStep' = currentStep)
           /\ formData' = formData ]_vars

\* goToNextStep was called on the last step of an apartment's sequence.
C6_Witness ==
  /\ last.op = "goToNextStep"
  /\ last.step = Len(steps) - 1
  /\ currentStep = last.step
  /\ formData.propertyType = "Apartamento"

\* ---------------------------------------------------------- location

\* C7: handleDistrictChange(v) sets the district to v and empties the
\* municipality and the parish; handleMunicipalityChange(v) sets the
\* municipality to v and empties the parish; nothing else of the answer set
\* changes, nor does the step index.
C7_LocationCascade ==
  [][ /\ last'.op = "district" =>
           /\ formData' = [formData EXCEPT !.district = last'.arg,
                                           !.municipality = "", !.parish = ""]
           /\ currentStep' = currentStep
      /\ last'.op = "municipality" =>
           /\ formData' = [formData EXCEPT !.municipality = last'.arg,
                                           !.parish = ""]
           /\ currentStep' = currentStep ]_vars

\* A district was chosen over a complete selection, which it emptied.
C7_Witness ==
  /\ last.op = "district"
  /\ last.arg = "Acores"
  /\ last.changed = {"district", "municipality", "parish"}
  /\ formData.district = "Acores"
  /\ formData.municipality = ""
  /\ formData.parish = ""

\* C8: the municipality is empty or one of municipalitiesByDistrict of the
\* district, and the parish is empty or one of parishesByMunicipality of the
\* municipality.
C8_LocationConsistent ==
  /\ \/ formData.municipality = ""
     \/ formData.municipality \in municipalitiesByDistrict(formData.district)
  /\ \/ formData.parish = ""
     \/ formData.parish \in parishesByMunicipality(formData.municipality)

\* In district Faro, Lagoa was chosen over another municipality whose
\* parish was selected: the parish was emptied with it.
C8_Witness ==
  /\ last.op = "municipality"
  /\ last.changed = {"municipality", "parish"}
  /\ formData.district = "Faro"
  /\ formData.municipality = "Lagoa"
  /\ formData.parish = ""

\* ------------------------------------------------------------ validity

Y1899 == <<"1", "8", "9", "9">>
Y1900 == <<"1", "9", "0", "0">>
Y2025 == <<"2", "0", "2", "5">>
Y2025Half == <<"2", "0", "2", "5", ".", "5">>
Y2026 == <<"2", "0", "2", "6">>

\* The wizard from the welcome screen to the contact step, with years on
\* both sides of both ends of the accepted range, and presses of the
\* primary button enabled and disabled.
NextValid ==
  \/ StartEvaluation
  \/ EditPropertyType(PropertyTypes)
  \/ EditLivingArea({T100})
  \/ EditPlotArea({T200})
  \/ EditFloor({<<"2">>})
  \/ EditPropertyConfig({"T3"})
  \/ EditYearBuilt({Y1899, Y1900, Y2025, Y2025Half, Y2026})
  \/ EditConservationState({"good"})
  \/ EditEnergyClass({"B"})
  \/ EditPool({"Sim"})
  \/ EditGarden({"Sim"})
  \/ EditElevator({"Sim"})
  \/ EditBalcony({"Sim"})
  \/ EditGarage({"Sim"})
  \/ EditStreetAddress({<<"R">>})
  \/ SelectDistrict
  \/ SelectMunicipality
  \/ SelectParish
  \/ ClickPrimary
  \/ ClickPrimaryDisabled
  \/ ClickBack

SpecValid == Init /\ [][NextValid]_vars

\* The steps whose validity the claim states.
SelectionSteps ==
  {"Tipo", "Tipologia", "Conservacao", "ClasseEnergetica", "Piscina",
   "Jardim", "Elevador", "Varanda", "Garagem", "Ano", "Localizacao"}

\* The validity predicate as stated: a kind, a selection, a number in
\* [1900, 2025], the three location selections.
StepValid(stepName, fd) ==
  CASE stepName = "Tipo" -> fd.propertyType # ""
    [] stepName = "Tipologia" -> fd.propertyConfig # ""
    [] stepName = "Conservacao" -> fd.conservationState # ""
    [] stepName = "ClasseEnergetica" -> fd.energyClass # ""
    [] stepName = "Piscina" -> fd.pool # ""
    [] stepName = "Jardim" -> fd.garden # ""
    [] stepName = "Elevador" -> fd.elevator # ""
    [] stepName = "Varanda" -> fd.balcony # ""
    [] stepName = "Garagem" -> fd.garage # ""
    [] stepName = "Ano" ->
         /\ ~Number(fd.yearBuilt).nan
         /\ DecLeq(Dec(1900, 0), Number(fd.yearBuilt))
         /\ DecLeq(Number(fd.yearBuilt), Dec(2025, 0))
    [] stepName = "Localizacao" ->
         fd.district # "" /\ fd.municipality # "" /\ fd.parish # ""
    [] OTHER -> TRUE

\* C9: on the steps Tipo, Tipologia, Conservacao, ClasseEnergetica, Piscina,
\* Jardim, Elevador, Varanda, Garagem, Ano and Localizacao the primary button
\* is enabled only when the step's validity predicate holds (the street
\* address has no part in it); when it fails, no step of the wizard advances
\* the index, and a press of the button changes nothing.
C9_PrimaryOnlyWhenValid ==
  [][ (~showWelcome /\ StepName \in SelectionSteps) =>
        /\ ~IsNextDisabled(StepName, formData) => StepValid(StepName, formData)
        /\ ~StepValid(StepName, formData) =>
             /\ currentStep' <= currentStep
             /\ last'.op \notin {"goToNextStep", "handleSubmit"}
             /\ last'.op = "primaryDisabled" =>
                  UNCHANGED <<formData, currentStep, steps, showWelcome>> ]_vars

\* The primary button was pressed on Localizacao with the street filled in
\* and district and municipality selected, but no parish: nothing moved.
C9_Witness ==
  /\ last.op = "primaryDisabled"
  /\ StepName = "Localizacao"
  /\ formData.streetAddress # <<>>
  /\ formData.district # ""
  /\ formData.municipality # ""
  /\ formData.parish = ""

\* ----------------------------------------------------------- plot area

T90 == <<"9", "0">>
T100Half == <<"1", "0", "0", ".", "5">>
T300 == <<"3", "0", "0">>

\* A house's first steps, with plot areas below, at and above two living
\* areas, and the way back to change the living area.
NextArea ==
  \/ StartEvaluation
  \/ EditPropertyType(PropertyTypes)
  \/ EditLivingArea({T100, T300})
  \/ EditPlotArea({<<"0">>, <<"-", "1">>, T90, T100, T100Half, T200, T300})
  \/ EditPropertyConfig({"T3"})
  \/ ClickPrimary
  \/ ClickPrimaryDisabled
  \/ ClickBack

SpecArea == Init /\ [][NextArea]_vars

\* The plot area is a number above zero and above the living area.
PlotAreaValid(fd) ==
  /\ ~Number(fd.plotArea).nan
  /\ DecLess(Dec(0, 0), Number(fd.plotArea))
  /\ DecLess(Number(fd.livingArea), Number(fd.plotArea))

\* C10: on AreaTotal the index advances only when plotArea is a number
\* greater than zero and strictly greater than the livingArea of that
\* moment, whatever was entered and changed before; otherwise the primary
\* button is disabled.
C10_PlotAboveLiving ==
  [][ (~showWelcome /\ StepName = "AreaTotal") =>
        /\ ~IsNextDisabled(StepName, formData) => PlotAreaValid(formData)
        /\ currentStep' > currentStep => PlotAreaValid(formData)
        /\ ~PlotAreaValid(formData) =>
             last'.op \notin {"goToNextStep", "handleSubmit"} ]_vars

\* Back on AreaTotal after the living area was raised to 300 with the plot
\* area 200 entered before: the press of the primary button is refused.
C10_Witness ==
  /\ last.op = "primaryDisabled"
  /\ StepName = "AreaTotal"
  /\ formData.livingArea = T300
  /\ formData.plotArea = T200

\* ------------------------------------------------ living area and floor

\* Texts a user may leave in a number field: numbers below, at and above
\* zero, and texts that are no number.
NumberTexts ==
  { <<>>, <<"0">>, <<"-", "0">>, <<"0", ".", "0">>, <<"1">>, <<"-", "1">>,
    <<".", "5">>, <<"-", ".", "5">>, <<"1", "e", "2">>, <<"1", "e">>,
    <<"-">>, <<".">>, <<"1", ",", "5">>, <<"a", "b", "c">>, <<" ", "1">> }

NextNumber ==
  \/ StartEvaluation
  \/ EditPropertyType(PropertyTypes)
  \/ TypeLivingArea(NumberTexts)
  \/ TypeFloor(NumberTexts)
  \/ EditPlotArea({T200})
  \/ ClickPrimary
  \/ ClickPrimaryDisabled
  \/ ClickBack

SpecNumber == Init /\ [][NextNumber]_vars

\* The field holds a number: a non-empty text of the number syntax.
IsNumeric(s) == s # <<>> /\ IsValidFloat(s)

\* The validity stated for the two steps.
NumberStepValid(stepName, fd) ==
  CASE stepName = "AreaUtil" ->
         IsNumeric(fd.livingArea) /\ DecLess(Dec(0, 0), Number(fd.livingArea))
    [] stepName = "Floor" ->
         IsNumeric(fd.floor) /\ DecLeq(Dec(0, 0), Number(fd.floor))
    [] OTHER -> TRUE

\* C11: on AreaUtil the index advances only when livingArea is a number above
\* zero and on Floor only when floor is a number not below zero; after a
\* non-empty text that is no number was left in either field, the primary
\* button is disabled.
C11_NumberSteps ==
  [][ /\ (~showWelcome /\ StepName \in {"AreaUtil", "Floor"}) =>
           /\ ~IsNextDisabled(StepName, formData) =>
                NumberStepValid(StepName, formData)
           /\ currentStep' > currentStep => NumberStepValid(StepName, formData)
      /\ (/\ last'.op \in {"livingArea", "floor"}
          /\ last'.arg # <<>>
          /\ ~IsValidFloat(last'.arg)) =>
           /\ IsNextDisabled(StepName', formData')
           /\ ~NumberStepValid(StepName', formData') ]_vars

\* The text "1e" was left in the floor field of an apartment of living area
\* 1: the field reports no value and the primary button is disabled.
C11_Witness ==
  /\ StepName = "Floor"
  /\ last.op = "floor"
  /\ last.arg = <<"1", "e">>
  /\ formData.livingArea = <<"1">>
  /\ IsNextDisabled(StepName, formData)

\* --------------------------------------------------------------- phone

Phone8 == <<"9", "1", "2", "3", "4", "5", "6", "7">>
Phone8Letter == <<"9", "1", "2", "3", "4", "5", "6", "7", "a">>
Phone9Plain == <<"9", "1", "2", "3", "4", "5", "6", "7", "8">>
Phone10 == <<"9", "1", "2", "3", "4", "5", "6", "7", "8", "0">>
Phone10Dashes == <<"9", "1", "-", "2", "3", "4", "-", "5", "6", "7", "-", "8", "0">>
PhonePrefixed ==
  <<"+", "3", "5", "1", " ", "9", "1", "2", "3", "4", "5", "6", "7", "8">>

\* The wizard up to the submission, with phone texts of 8, 9, 10 and 12
\* digits, bare and with other characters in between.
NextPhone ==
  \/ StartEvaluation
  \/ EditPropertyType({"Apartamento"})
  \/ EditLivingArea({T100})
  \/ EditFloor({<<"2">>})
  \/ EditPropertyConfig({"T3"})
  \/ EditYearBuilt({Y2020})
  \/ EditEnergyClass({"B"})
  \/ EditElevator({"Sim"})
  \/ EditBalcony({"Sim"})
  \/ EditGarage({"Sim"})
  \/ SelectDistrict
  \/ SelectMunicipality
  \/ SelectParish
  \/ EditPhone({<<>>, Phone8, Phone8Letter, Phone9, Phone9Plain, Phone10,
                Phone10Dashes, PhonePrefixed})
  \/ ClickPrimary
  \/ ClickPrimaryDisabled
  \/ ClickBack

SpecPhone == Init /\ [][NextPhone]_vars

\* The number of digit characters in a text.
CountDigits(s) == Cardinality({i \in DOMAIN s : s[i] \in Digits})

\* C12: on Contacto the primary button is enabled, and the submission
\* advances the index, if and only if the phone field holds exactly 9 digit
\* characters, whatever other characters stand between them.
C12_NineDigits ==
  [][ (~showWelcome /\ StepName = "Contacto") =>
        /\ ~IsNextDisabled(StepName, formData) <=> CountDigits(formData.phone) = 9
        /\ currentStep' > currentStep => CountDigits(formData.phone) = 9
        /\ last'.op = "primaryDisabled" => CountDigits(formData.phone) # 9
        /\ last'.op = "handleSubmit" => CountDigits(formData.phone) = 9 ]_vars

\* The submission went through with the phone "912 345 678".
C12_Witness ==
  /\ last.op = "handleSubmit"
  /\ StepName = "Resultado"
  /\ formData.phone = Phone9

\* ------------------------------------------------ the apartment estimate

\* calculatePropertyValue is a function of the answer set and the year: it
\* is applied to answer sets drawn from a grid, by the submission on the
\* contact step, which sends the estimate and leads to the result step.
InitEstimate(Answers) ==
  /\ formData \in Answers
  /\ showWelcome = FALSE
  /\ currentYear \in CurrentYears
  /\ steps = ComputeSteps(formData.propertyType, formData.yearBuilt, currentYear)
  /\ currentStep = Len(steps) - 2
  /\ pending = 0
  /\ last = [op |-> "init", step |-> 0, arg |-> "", changed |-> {}]

CallHandleSubmit == StepName = "Contacto" /\ handleSubmit

NextEstimate == CallHandleSubmit

T80 == <<"8", "0">>
T62Half == <<"6", "2", ".", "5">>
Y1995 == <<"1", "9", "9", "5">>
Y2005 == <<"2", "0", "0", "5">>
Y2015 == <<"2", "0", "1", "5">>

\* Apartments that differ in layout, year, condition and energy class.
ApartmentsByAnswer ==
  [ propertyType : {"Apartamento"}, livingArea : {T80},
    plotArea : {<<>>}, floor : {<<"1">>},
    propertyConfig : {"", "T0", "T1", "T2", "T3", "T4+"},
    yearBuilt : {<<>>, Y1995, Y2005, Y2010, Y2015},
    conservationState : {"", "good", "needs_renovation"},
    energyClass : {"", "A+", "B", "D"}, elevator : {"Nao"},
    balcony : {"Nao"}, garage : {"Nao"},
    pool : {""}, garden : {""}, streetAddress : {<<>>}, district : {"Faro"},
    municipality : {"Faro"}, parish : {"Montenegro"}, phone : {Phone9Plain},
    acceptsContact : {FALSE}, wantsProfessionalEvaluation : {FALSE} ]

\* Apartments that differ in area, floor, amenities and year.
ApartmentsByFloor ==
  [ propertyType : {"Apartamento"}, livingArea : {T80, T62Half},
    plotArea : {<<>>}, floor : {<<>>, <<"0">>, <<"1">>, <<"2">>, <<"3">>},
    propertyConfig : {"T3"},
    yearBuilt : {<<>>, Y1995, Y2005, Y2010, Y2015},
    conservationState : {""},
    energyClass : {""}, elevator : {"Sim", "Nao"},
    balcony : {"Sim", "Nao"}, garage : {"Sim", "Nao"},
    pool : {""}, garden : {""}, streetAddress : {<<>>}, district : {"Faro"},
    municipality : {"Faro"}, parish : {"Montenegro"}, phone : {Phone9Plain},
    acceptsContact : {FALSE}, wantsProfessionalEvaluation : {FALSE} ]

ApartmentGrid == ApartmentsByAnswer \cup ApartmentsByFloor

\* The apartment of the scenario: 80 m2 on the fifth floor, in Faro.
ApartmentScenario ==
  [ propertyType |-> "Apartamento", livingArea |-> T80, plotArea |-> <<>>,
    floor |-> <<"5">>, propertyConfig |-> "T2", yearBuilt |-> Y2010,
    conservationState |-> "good", energyClass |-> "B", elevator |-> "Sim",
    balcony |-> "Nao", garage |-> "Sim", pool |-> "", garden |-> "",
    streetAddress |-> <<>>, district |-> "Faro", municipality |-> "Faro",
    parish |-> "Montenegro", phone |-> Phone9Plain,
    acceptsContact |-> FALSE, wantsProfessionalEvaluation |-> FALSE ]

InitApartment == InitEstimate(ApartmentGrid \cup {ApartmentScenario})

SpecApartment == InitApartment /\ [][NextEstimate]_vars

\* The age of the building, for a year that parses.
Age == currentYear - parseInt(formData.yearBuilt).v

\* The estimate has been computed: the submission on the contact step put
\* the value calculatePropertyValue returned into its payload.
Estimated == StepName = "Resultado" /\ last.op = "handleSubmit"

Estimate == last.arg.payload.ValorEstimado

\* x = y for two numbers.
NumEq(x, y) == NumIsZero(NumSub(x, y))

\* round(livingArea * 1.25 * pricePerArea * (1 + adj / 100)) for the
\* living area and the price of the answer set.
ApartmentValueAt(adj) ==
  MathRound(NumMul(NumMul(NumMul(areaUtil(formData), Num(125, 0 - 2)),
                          precoM2(formData)),
                   Num(100 + adj, 0 - 2)))

\* The answer sets of claim C13 but for the age.
PlainApartment ==
  /\ formData.propertyType = "Apartamento"
  /\ formData.propertyConfig = "T3"
  /\ ~parseInt(formData.yearBuilt).nan
  /\ formData.conservationState = ""
  /\ formData.energyClass = ""
  /\ parseInt(formData.floor) \in {IntOf(1), IntOf(2)}
  /\ formData.elevator # "Sim"
  /\ formData.garage # "Sim"
  /\ formData.balcony # "Sim"

\* C13 as stated: for an apartment, T3, of age 11 to 20, with no condition,
\* no energy class, on floor 1 or 2 and with no amenity, the total
\* adjustment is 0 and the estimate is round(livingArea * 1.25 * price).
C13_PlainApartmentTo20 ==
  (Estimated /\ PlainApartment /\ Age >= 11 /\ Age <= 20) =>
    /\ NumIsZero(totalAdj(formData, currentYear))
    /\ Estimate = ApartmentValueAt(0)

\* C13, amended: the same for the ages 11 to 15.
C13_PlainApartmentTo15 ==
  (Estimated /\ PlainApartment /\ Age >= 11 /\ Age <= 15) =>
    /\ NumIsZero(totalAdj(formData, currentYear))
    /\ Estimate = ApartmentValueAt(0)

\* The estimate of 62.5 m2 on floor 2, of age 15, in Faro: 156250.
C13_Witness ==
  /\ Estimated
  /\ PlainApartment
  /\ Age = 15
  /\ formData.livingArea = T62Half
  /\ formData.floor = <<"2">>
  /\ Estimate = 156250

\* C15: the apartment of the scenario, in the year when its age is 15, has
\* the adjustments -0.05, 0, +0.10, +0.02, +0.03, +0.05, +0.05 and 0, the
\* total 0.20, and the estimate 240000.
C15_ApartmentScenario ==
  (Estimated /\ formData = ApartmentScenario /\ Age = 15) =>
    /\ NumEq(getPricePerSquareMeter(formData.municipality), Num(2000, 0))
    /\ NumEq(getTipologyAdj(formData.propertyConfig), Num(0 - 5, 0 - 2))
    /\ NumEq(getAgeAdj(formData.yearBuilt, currentYear), Num(0, 0))
    /\ NumEq(getStateAdj(formData.conservationState), Num(10, 0 - 2))
    /\ NumEq(getClassAdj(formData.energyClass), Num(2, 0 - 2))
    /\ NumEq(getFloorAdj(formData.floor, formData.elevator), Num(3, 0 - 2))
    /\ NumEq(getElevatorAdj(formData.floor, formData.elevator), Num(5, 0 - 2))
    /\ NumEq(getGarageAdj(formData.garage), Num(5, 0 - 2))
    /\ NumEq(getBalconyAdj(formData.balcony), Num(0, 0))
    /\ NumEq(totalAdj(formData, currentYear), Num(20, 0 - 2))
    /\ Estimate = 240000

\* The apartment of the scenario was submitted in 2025.
C15_Witness ==
  /\ Estimated
  /\ formData = ApartmentScenario
  /\ currentYear = 2025
  /\ Estimate = 240000

\* The eight table entries as stated, in hundredths, for the layout, the
\* age, the condition, the energy class, the floor, the elevator bonus, the
\* garage and the balcony.
LayoutEntry(tip) ==
  CASE tip = "T0" -> 0 - 15 [] tip = "T1" -> 0 - 10 [] tip = "T2" -> 0 - 5
    [] tip = "T3" -> 0 [] tip = "T4+" -> 10 [] OTHER -> 0

AgeEntry(y, year) ==
  IF y.nan THEN 0
  ELSE IF year - y.v > 20 THEN 0 - 10
  ELSE IF year - y.v > 15 THEN 0 - 5
  ELSE IF year - y.v > 10 THEN 0
  ELSE 15

ConditionEntry(c) ==
  CASE c = "good" -> 10 [] c = "needs_renovation" -> 0 - 5 [] OTHER -> 0

EnergyEntry(c) == CASE c = "A+" -> 5 [] c \in {"A", "B"} -> 2 [] OTHER -> 0

\* Floor and elevator bonus together: floor 3 and up with an elevator +0.08
\* and without -0.10, floor 2 with an elevator +0.05, floor 0 -0.05 with or
\* without, and nothing otherwise.
FloorAndElevatorEntry(f, el) ==
  IF f.nan THEN 0
  ELSE IF f.v >= 3 THEN (IF el = "Sim" THEN 8 ELSE 0 - 10)
  ELSE IF f.v = 2 THEN (IF el = "Sim" THEN 5 ELSE 0)
  ELSE IF f.v = 0 THEN 0 - 5
  ELSE 0

EntriesSum(fd, year) ==
  LayoutEntry(fd.propertyConfig) + AgeEntry(parseInt(fd.yearBuilt), year)
    + ConditionEntry(fd.conservationState) + EnergyEntry(fd.energyClass)
    + FloorAndElevatorEntry(parseInt(fd.floor), fd.elevator)
    + (IF fd.garage = "Sim" THEN 5 ELSE 0) + (IF fd.balcony = "Sim" THEN 2 ELSE 0)

\* C17: for every apartment the total adjustment is the sum of the eight
\* table entries, with the age thresholds 20, 15 and 10 and 0 for a year
\* that does not parse, and with the elevator bonus added to the floor
\* entry.
C17_ApartmentAdjustment ==
  (Estimated /\ formData.propertyType = "Apartamento") =>
    /\ NumEq(totalAdj(formData, currentYear),
             Num(EntriesSum(formData, currentYear), 0 - 2))
    /\ NumEq(NumAdd(getFloorAdj(formData.floor, formData.elevator),
                    getElevatorAdj(formData.floor, formData.elevator)),
             Num(FloorAndElevatorEntry(parseInt(formData.floor), formData.elevator),
                 0 - 2))

\* A third floor with an elevator, a garage and a balcony, of an age above
\* 20: 0.08 + 0.05 + 0.02 - 0.10, and 80 * 1.25 * 2000 * 1.05 = 210000.
C17_Witness ==
  /\ Estimated
  /\ formData.propertyType = "Apartamento"
  /\ formData.floor = <<"3">>
  /\ formData.elevator = "Sim"
  /\ formData.garage = "Sim"
  /\ formData.balcony = "Sim"
  /\ formData.yearBuilt = Y1995
  /\ formData.livingArea = T80
  /\ Estimate = 210000

\* ---------------------------------------------------- the house estimate

T150 == <<"1", "5", "0">>
T400 == <<"4", "0", "0">>

\* Houses that differ in layout, year, condition and energy class.
HousesByAnswer ==
  [ propertyType : {"Moradia"}, livingArea : {T150}, plotArea : {T400},
    floor : {<<>>}, propertyConfig : {"", "T0", "T1", "T2", "T3", "T4+"},
    yearBuilt : {<<>>, Y1995, Y2005, Y2010, Y2015},
    conservationState : {"", "good", "needs_renovation"},
    energyClass : {"", "A+", "B", "D"}, elevator : {""}, balcony : {""},
    garage : {""}, pool : {"Nao"}, garden : {"Nao"}, streetAddress : {<<>>},
    district : {"Faro"}, municipality : {"Lagoa"}, parish : {"Cabouco"},
    phone : {Phone9Plain}, acceptsContact : {FALSE},
    wantsProfessionalEvaluation : {FALSE} ]

\* Houses that differ in areas, pool, garden, municipality and year.
HousesByArea ==
  [ propertyType : {"Moradia"}, livingArea : {<<>>, T62Half, T150},
    plotArea : {<<>>, T150, T400}, floor : {<<>>}, propertyConfig : {"T3"},
    yearBuilt : {Y2005, Y2010, Y2015}, conservationState : {""},
    energyClass : {""}, elevator : {""}, balcony : {""}, garage : {""},
    pool : {"", "Sim"}, garden : {"", "Sim"}, streetAddress : {<<>>},
    district : {"Faro"}, municipality : {"", "Faro", "Lagoa"},
    parish : {""}, phone : {Phone9Plain}, acceptsContact : {FALSE},
    wantsProfessionalEvaluation : {FALSE} ]

\* Houses with the answers of an apartment's steps left in the answer set.
HousesWithFloor ==
  [ propertyType : {"Moradia"}, livingArea : {T150}, plotArea : {T400},
    floor : {<<>>, <<"0">>, <<"3">>}, propertyConfig : {"T4+"},
    yearBuilt : {Y1995}, conservationState : {"needs_renovation"},
    energyClass : {"D"}, elevator : {"", "Sim", "Nao"},
    balcony : {"", "Sim"}, garage : {"", "Sim"}, pool : {"Sim"},
    garden : {"Sim", "Nao"}, streetAddress : {<<>>}, district : {"Faro"},
    municipality : {"Lagoa"}, parish : {"Cabouco"}, phone : {Phone9Plain},
    acceptsContact : {FALSE}, wantsProfessionalEvaluation : {FALSE} ]

\* The house of the scenario: 150 m2 on a plot of 400 m2, in Lagoa.
HouseScenario ==
  [ propertyType |-> "Moradia", livingArea |-> T150, plotArea |-> T400,
    floor |-> <<>>, propertyConfig |-> "T4+", yearBuilt |-> Y1995,
    conservationState |-> "needs_renovation", energyClass |-> "D",
    elevator |-> "", balcony |-> "", garage |-> "", pool |-> "Sim",
    garden |-> "Nao", streetAddress |-> <<>>, district |-> "Faro",
    municipality |-> "Lagoa", parish |-> "Cabouco", phone |-> Phone9Plain,
    acceptsContact |-> FALSE, wantsProfessionalEvaluation |-> FALSE ]

InitHouse ==
  InitEstimate(HousesByAnswer \cup HousesByArea \cup HousesWithFloor
                 \cup {HouseScenario})

SpecHouse == InitHouse /\ [][NextEstimate]_vars

\* The answer sets of claim C14 but for the age: a house whose total area
\* is its living area, T3, with nothing else answered.
PlainHouse ==
  /\ formData.propertyType = "Moradia"
  /\ NumEq(areaTotal(formData), areaUtil(formData))
  /\ formData.pool = ""
  /\ formData.garden = ""
  /\ formData.energyClass = ""
  /\ formData.conservationState = ""
  /\ formData.propertyConfig = "T3"
  /\ ~parseInt(formData.yearBuilt).nan

\* round(livingArea * 0.75 * pricePerArea).
PlainHouseValue ==
  MathRound(NumMul(NumMul(areaUtil(formData), Num(75, 0 - 2)), precoM2(formData)))

\* C14 as stated: for such a house of age 11 to 20 the product of the
\* factors is 1 and the estimate is round(livingArea * 0.75 * price).
C14_PlainHouseTo20 ==
  (Estimated /\ PlainHouse /\ Age >= 11 /\ Age <= 20) =>
    /\ NumEq(factors(formData, currentYear), Num(1, 0))
    /\ Estimate = PlainHouseValue

\* C14, amended: the same for the ages 11 to 15.
C14_PlainHouseTo15 ==
  (Estimated /\ PlainHouse /\ Age >= 11 /\ Age <= 15) =>
    /\ NumEq(factors(formData, currentYear), Num(1, 0))
    /\ Estimate = PlainHouseValue

\* A house of 150 m2 with the plot area given as 150, of age 15, in Faro:
\* 150 * 0.75 * 2000 = 225000.
C14_Witness ==
  /\ Estimated
  /\ PlainHouse
  /\ Age = 15
  /\ formData.livingArea = T150
  /\ formData.plotArea = T150
  /\ formData.municipality = "Faro"
  /\ Estimate = 225000

\* C16 as stated: for the house of the scenario the base area is 199.25
\* and the estimate is round(199.25 * 1800 * 0.9696).
C16_HouseScenarioAsStated ==
  (Estimated /\ formData = HouseScenario) =>
    /\ NumEq(baseArea(formData), Num(19925, 0 - 2))
    /\ Estimate = MathRound(NumMul(NumMul(Num(19925, 0 - 2), Num(1800, 0)),
                                    Num(9696, 0 - 4)))

\* C16, amended: for the house of the scenario (age above 20, price 1800)
\* the base area is 150 * 0.75 + 250 * 0.35 = 200, the factors are 1.10,
\* 0.90, 0.95, 1.03, 1.00 and 1.00 with the product 0.968715, and the
\* estimate is round(200 * 1800 * 0.968715) = 348737.
C16_HouseScenario ==
  (Estimated /\ formData = HouseScenario) =>
    /\ Age > 20
    /\ NumEq(precoM2(formData), Num(1800, 0))
    /\ NumEq(baseArea(formData), Num(200, 0))
    /\ NumEq(getTipologyFactor(formData.propertyConfig), Num(110, 0 - 2))
    /\ NumEq(getAgeFactor(formData.yearBuilt, currentYear), Num(90, 0 - 2))
    /\ NumEq(getStateFactor(formData.conservationState), Num(95, 0 - 2))
    /\ NumEq(getPoolFactor(formData.pool), Num(103, 0 - 2))
    /\ NumEq(getGardenFactor(formData.garden), Num(1, 0))
    /\ NumEq(getClassFactor(formData.energyClass), Num(1, 0))
    /\ NumEq(factors(formData, currentYear), Num(968715, 0 - 6))
    /\ Estimate = 348737

\* The house of the scenario was submitted in 2025.
C16_Witness ==
  /\ Estimated
  /\ formData = HouseScenario
  /\ currentYear = 2025
  /\ Estimate = 348737

\* The factor tables as stated, in thousandths.
LayoutFactorEntry(tip) ==
  CASE tip = "T0" -> 850 [] tip = "T1" -> 900 [] tip = "T2" -> 950
    [] tip = "T3" -> 1000 [] tip = "T4+" -> 1100 [] OTHER -> 1000

AgeFactorEntry(y, year) ==
  IF y.nan THEN 1000
  ELSE IF year - y.v > 20 THEN 900
  ELSE IF year - y.v > 15 THEN 950
  ELSE IF year - y.v > 10 THEN 1000
  ELSE 1150

ConditionFactorEntry(c) ==
  CASE c = "good" -> 1100 [] c = "needs_renovation" -> 950 [] OTHER -> 1000

EnergyFactorEntry(c) ==
  CASE c = "A+" -> 1050 [] c \in {"A", "B"} -> 1020 [] OTHER -> 1000

\* The text of an area as a number, 0 when empty.
AreaOf(s) == IF s = <<>> THEN Num(0, 0) ELSE NumOfDec(Number(s))

\* totalArea: plotArea when given and livingArea otherwise.
TotalAreaOf(fd) == IF fd.plotArea # <<>> THEN AreaOf(fd.plotArea) ELSE AreaOf(fd.livingArea)

\* pricePerArea: 2000 for Faro, 1800 for Lagoa, and 1500 without an entry.
PriceOf(c) == CASE c = "Faro" -> 2000 [] c = "Lagoa" -> 1800 [] OTHER -> 1500

\* The product of the six factors, each taken from its table.
FactorProduct(fd, year) ==
  NumMul(Num(LayoutFactorEntry(fd.propertyConfig), 0 - 3),
    NumMul(Num(AgeFactorEntry(parseInt(fd.yearBuilt), year), 0 - 3),
      NumMul(Num(ConditionFactorEntry(fd.conservationState), 0 - 3),
        NumMul(Num(IF fd.pool = "Sim" THEN 1030 ELSE 1000, 0 - 3),
          NumMul(Num(IF fd.garden = "Sim" THEN 1005 ELSE 1000, 0 - 3),
                 Num(EnergyFactorEntry(fd.energyClass), 0 - 3))))))

\* round((livingArea * 0.75 + (totalArea - livingArea) * 0.35) * price *
\* factors), from the areas, the municipality and the six answers only.
HouseValue(fd, year) ==
  MathRound(
    NumMul(NumMul(Num(PriceOf(fd.municipality), 0), FactorProduct(fd, year)),
           NumAdd(NumMul(Num(75, 0 - 2), AreaOf(fd.livingArea)),
                  NumMul(Num(35, 0 - 2),
                         NumSub(TotalAreaOf(fd), AreaOf(fd.livingArea))))))

\* C18: for every house the estimate is the rounded product of the base
\* area, the price of the municipality (1500 without an entry) and the six
\* factors, with the plot area standing for the total area when given and
\* the living area otherwise; the answers on floor, elevator, balcony and
\* garage have no part in it.
C18_HouseFormula ==
  (Estimated /\ formData.propertyType = "Moradia") =>
    Estimate = HouseValue(formData, currentYear)

\* A house with no plot area, a pool and a garden, in no municipality of
\* the price list: 150 * 0.75 * 1500 * 0.95 * 1.03 * 1.005 = 165947.48.
C18_Witness ==
  /\ Estimated
  /\ formData.propertyType = "Moradia"
  /\ formData.livingArea = T150
  /\ formData.plotArea = <<>>
  /\ formData.municipality = ""
  /\ formData.pool = "Sim"
  /\ formData.garden = "Sim"
  /\ Age = 16
  /\ Estimate = 165947

\* ------------------------------------------------------- no property kind

\* Answer sets with no kind selected and everything else answered or not.
NoKindGrid ==
  [ propertyType : {""}, livingArea : {<<>>, T80}, plotArea : {<<>>, T400},
    floor : {<<>>, <<"3">>}, propertyConfig : {"", "T4+"},
    yearBuilt : {<<>>, Y1995, Y2015}, conservationState : {"", "good"},
    energyClass : {"", "A+"}, elevator : {"", "Sim"}, balcony : {""},
    garage : {"", "Sim"}, pool : {"", "Sim"}, garden : {""},
    streetAddress : {<<>>}, district : {"Faro"},
    municipality : {"", "Faro", "Lagoa"}, parish : {""},
    phone : {Phone9Plain}, acceptsContact : {FALSE},
    wantsProfessionalEvaluation : {FALSE} ]

InitKind == InitEstimate(NoKindGrid \cup {ApartmentScenario, HouseScenario})

SpecKind == InitKind /\ [][NextEstimate]_vars

\* C19: the estimate is 0 whenever the kind is neither Apartamento nor
\* Moradia, whatever the other answers and the price of the municipality.
C19_NoKindNoValue ==
  (Estimated /\ formData.propertyType \notin {"Apartamento", "Moradia"}) =>
    Estimate = 0

\* An answer set with areas, layout and year but no kind, in Faro, was
\* submitted.
C19_Witness ==
  /\ Estimated
  /\ formData.propertyType = ""
  /\ formData.livingArea = T80
  /\ formData.propertyConfig = "T4+"
  /\ formData.yearBuilt = Y1995
  /\ formData.municipality = "Faro"
  /\ Estimate = 0

\* ------------------------------------------------------------ submission

\* C20: a submission on Contacto calls fetch once, so that at most one more
\* request is in flight, and the step after it is Resultado with the answer
\* set unchanged, whether fetch threw or the request was sent; the later
\* fulfilment or rejection of a request, whatever the user did in between,
\* changes neither the answer set nor the index, and nothing but a
\* submission puts a request in flight.
C20_FireAndForget ==
  [][ /\ (last.op # "handleSubmit" /\ last'.op = "handleSubmit") =>
           /\ StepName = "Contacto"
           /\ StepName' = "Resultado"
           /\ currentStep' = currentStep + 1
           /\ formData' = formData
           /\ last'.arg.fetch \in {"sent", "threw"}
           /\ pending' = pending + (IF last'.arg.fetch = "sent" THEN 1 ELSE 0)
      /\ pending' < pending =>
           /\ pending' = pending - 1
           /\ UNCHANGED <<formData, currentStep, steps, showWelcome>>
      /\ pending' > pending =>
           (last.op # "handleSubmit" /\ last'.op = "handleSubmit") ]_vars

\* On Resultado after a submission whose request was sent, with no request
\* in flight any more: the request has completed and the house's answers
\* and the step stand.
C20_Witness ==
  /\ StepName = "Resultado"
  /\ last.op = "handleSubmit"
  /\ last.arg.fetch = "sent"
  /\ pending = 0
  /\ formData.propertyType = "Moradia"
  /\ formData.phone = Phone9

\* ---------------------------------------------------------------- reset

\* The state the questionnaire starts in once the welcome screen is
\* dismissed: the initial answer set, index 0 and the sequence derived from
\* the empty answers.
AtWizardStart(fd, cs, list, welcome) ==
  /\ fd = InitialFormData
  /\ cs = 0
  /\ list = ComputeSteps("", <<>>, currentYear)
  /\ ~welcome

\* C21: a new evaluation is requested on the Resultado step only, and it
\* leaves every field of the answer set at its initial empty value (texts
\* empty, both consent flags false) and the step index at 0: the state of
\* the wizard's start with the welcome screen dismissed.
C21_ResetToStart ==
  [][ (last'.op = "reset" /\ last.op # "reset") =>
        /\ StepName = "Resultado"
        /\ AtWizardStart(formData', currentStep', steps', showWelcome') ]_vars

\* A house's evaluation with the consent given was reset from the result
\* step (index 11 of the twelve steps): the answers are gone.
C21_Witness ==
  /\ last.op = "reset"
  /\ last.step = 11
  /\ {"propertyType", "phone", "acceptsContact", "parish"} \subseteq last.changed
  /\ AtWizardStart(formData, currentStep, steps, showWelcome)

\* ------------------------------------------------------ the step position

\* The operations that edit an answer are recorded under the field's name.
AnswerFields == DOMAIN InitialFormData

\* C22: an edit of an answer made on the current step, the edits that
\* recompute the sequence included (the kind on Tipo, the year on Ano),
\* leaves steps[currentStep] the step identifier it was before the edit.
C22_StableStep ==
  [][ (~showWelcome /\ last'.op \in AnswerFields /\ formData' # formData) =>
        /\ StepName # "undefined"
        /\ StepAt(steps', currentStep') = StepName ]_vars

\* Back on Tipo with a floor entered for an apartment, the kind was changed
\* to house: the sequence now has AreaTotal for Floor, and the step is Tipo.
C22_Witness ==
  /\ last.op = "propertyType"
  /\ last.changed = {"propertyType"}
  /\ formData.propertyType = "Moradia"
  /\ formData.floor # <<>>
  /\ Has(steps, "AreaTotal")
  /\ StepName = "Tipo"

\* --------------------------------------------- answers revised on the way

\* The whole wizard with answers that can be revised after going back: two
\* living areas on either side of the plot area, and a year that asks for
\* the condition (2000) and one that does not (2020).
NextRevise ==
  \/ StartEvaluation
  \/ EditPropertyType(PropertyTypes)
  \/ EditLivingArea({T100, T300})
  \/ EditPlotArea({T200})
  \/ EditFloor({<<"2">>})
  \/ EditPropertyConfig({"T3"})
  \/ EditYearBuilt({Y2000, Y2020})
  \/ EditConservationState({"good"})
  \/ EditEnergyClass({"B"})
  \/ EditPool({"Sim"})
  \/ EditGarden({"Sim"})
  \/ EditElevator({"Sim"})
  \/ EditBalcony({"Sim"})
  \/ EditGarage({"Sim"})
  \/ SelectDistrict
  \/ SelectMunicipality
  \/ SelectParish
  \/ EditPhone({Phone9})
  \/ ClickPrimary
  \/ ClickBack
  \/ ClickNewEvaluation
  \/ FetchFulfilled
  \/ FetchRejected

SpecRevise == Init /\ [][NextRevise]_vars

\* The catalog of step identifiers.
StepCatalog ==
  {"Tipo", "AreaUtil", "AreaTotal", "Floor", "Tipologia", "Ano", "Conservacao",
   "ClasseEnergetica", "Piscina", "Jardim", "Elevador", "Varanda", "Garagem",
   "Localizacao", "Contacto", "Resultado"}

\* C23: in every state reached by edits, advances, retreats, submissions
\* and resets, steps is the sequence derived from the current answers and
\* 0 <= currentStep < steps.length, so steps[currentStep] is a defined step
\* identifier.
C23_IndexInRange ==
  /\ steps = ComputeSteps(formData.propertyType, formData.yearBuilt, currentYear)
  /\ 0 <= currentStep
  /\ currentStep < Len(steps)
  /\ StepName \in StepCatalog

\* The sequence has shrunk under the index: back on Ano with the condition
\* answered, the year was changed to 2020 and the condition step is gone.
C23_Witness ==
  /\ last.op = "yearBuilt"
  /\ formData.yearBuilt = Y2020
  /\ formData.conservationState = "good"
  /\ ~Has(steps, "Conservacao")
  /\ StepName = "Ano"
  /\ formData.propertyType = "Moradia"
  /\ Len(steps) = 11

\* The validity stated for a step: the kind set, the areas and the floor
\* valid, the year in range, the selection made, the location complete, the
\* phone with 9 digits.
AnswersValidFor(stepName, fd) ==
  /\ StepValid(stepName, fd)
  /\ NumberStepValid(stepName, fd)
  /\ stepName = "AreaTotal" => PlotAreaValid(fd)
  /\ stepName = "Contacto" => CountDigits(fd.phone) = 9

\* C24: whenever the current step is Resultado, every other step of the
\* sequence derived from the current answers is valid for the current
\* answers, by the stated validity and by isNextDisabled, whatever
\* navigation and edits led there.
C24_ResultAllValid ==
  StepName = "Resultado" =>
    \A i \in 1 .. (Len(steps) - 1) :
      /\ AnswersValidFor(steps[i], formData)
      /\ ~IsNextDisabled(steps[i], formData)

\* The result of a house that was first entered as an apartment (a floor
\* and an elevator are still in the answers) and is old enough for the
\* condition step.
C24_Witness ==
  /\ StepName = "Resultado"
  /\ formData.propertyType = "Moradia"
  /\ formData.floor # <<>>
  /\ formData.elevator = "Sim"
  /\ Has(steps, "Conservacao")
  /\ Has(steps, "AreaTotal")

\* ------------------------------------------- answers out of the sequence

\* The step on which each answer is asked.
FieldStep ==
  [ propertyType |-> "Tipo", livingArea |-> "AreaUtil", plotArea |-> "AreaTotal",
    floor |-> "Floor", propertyConfig |-> "Tipologia", yearBuilt |-> "Ano",
    conservationState |-> "Conservacao", energyClass |-> "ClasseEnergetica",
    elevator |-> "Elevador", balcony |-> "Varanda", garage |-> "Garagem",
    pool |-> "Piscina", garden |-> "Jardim", streetAddress |-> "Localizacao",
    district |-> "Localizacao", municipality |-> "Localizacao",
    parish |-> "Localizacao", phone |-> "Contacto",
    acceptsContact |-> "Contacto", wantsProfessionalEvaluation |-> "Contacto" ]

\* The answers whose step is in the sequence; the others as never given.
AnswersInSequence(fd, list) ==
  [f \in DOMAIN fd |-> IF Has(list, FieldStep[f]) THEN fd[f] ELSE InitialFormData[f]]

\* C25: whenever the current step is Resultado, the valuation is the one of
\* the answers whose step is in the derived sequence; when Conservacao is
\* not in the sequence the condition adjustment (apartment) or factor
\* (house) applied is the neutral one, 0 or 1.00.
C25_OnlySequenceAnswers ==
  StepName = "Resultado" =>
    /\ calculatePropertyValue(formData, currentYear)
         = calculatePropertyValue(AnswersInSequence(formData, steps), currentYear)
    /\ ~Has(steps, "Conservacao") =>
         /\ NumEq(getStateAdj(formData.conservationState), Num(0, 0))
         /\ NumEq(getStateFactor(formData.conservationState), Num(1, 0))

\* ------------------------------------------------- the valuation shown

\* C26: the valuation is non-null exactly when the current step is
\* Resultado; Resultado is the current step only when the last operation of
\* the wizard was a submission made on Contacto (hence after the last
\* reset), and the valuation shown equals the 'Valor estimado' of that
\* submission's payload.
C26_ValuationOfSubmission ==
  /\ ~valuation.null <=> StepName = "Resultado"
  /\ StepName = "Resultado" =>
       /\ last.op = "handleSubmit"
       /\ StepAt(steps, last.step) = "Contacto"
       /\ last.step = currentStep - 1
       /\ valuation.value = last.arg.payload.ValorEstimado

\* The result of a second evaluation: the request of an earlier submission
\* is still in flight, and this submission's fetch threw.  The apartment's
\* estimate is shown.
C26_Witness ==
  /\ StepName = "Resultado"
  /\ last.op = "handleSubmit"
  /\ last.arg.fetch = "threw"
  /\ pending = 1
  /\ formData.propertyType = "Apartamento"
  /\ ~valuation.null
  /\ valuation.value > 0
  /\ valuation.value = last.arg.payload.ValorEstimado

====
